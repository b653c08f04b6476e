------------------------------- MODULE CIWatch -------------------------------
(***************************************************************************)
(* The CI watch of one pull request: a row pinned to the head it was       *)
(* registered on, driven to a terminal status by reads of the live state   *)
(* of the pull request.  Webhooks, an in-memory mergeability retry, a      *)
(* durable backstop, the agent's registrations, the governed-merge gate    *)
(* and a human's merge all work on the one row, each a goroutine that can  *)
(* be interleaved with the others between any two of its calls.            *)
(*                                                                         *)
(* Webhooks carry no state: a delivery only triggers a read, so a repeated *)
(* or late one is a read at any time and a lost one is no read at all.     *)
(***************************************************************************)
EXTENDS Naturals, FiniteSets

CONSTANTS Workers,
          MaxHead,      \* bound on the heads of the branch
          MaxRegs,      \* bound on registrations
          MaxFaults     \* restarts and failed calls

ASSUME BoundsAssumption ==
  /\ IsFiniteSet(Workers)
  /\ MaxHead \in Nat \ {0} /\ MaxRegs \in Nat /\ MaxFaults \in Nat

VARIABLES
  pr,       \* GitHub: head, checks on it, mergeability, merged
  ledger,   \* control_action_events: heads of succeeded governed pushes
  watch,    \* the session_ci_watches row: status, head_sha (0: empty)
  phase,    \* the orchestration phase of the session, if it has one
  timers,   \* ciWatchMergeabilityRetries of the process, by head
  worker,   \* the goroutines under way
  wakes, regs,
  trusted,  \* heads outside the ledger that were pinned on request, or
            \* followed because the ledger could not be read
  faults

vars == <<pr, ledger, watch, phase, timers, worker, wakes, regs, trusted, faults>>
github == <<pr, ledger>>

Heads == 1..MaxHead
Pins == 0..MaxHead
State == [head : Heads, checks : {"running", "red", "green"},
          merge : {"unknown", "clean", "dirty"}, merged : BOOLEAN]
\* What the reducer makes of a state; "unknown" is watching with mergeability
\* not computed yet.
Verdict == {"watching", "unknown", "ready", "failed", "conflict", "merged"}
Status == {"none", "watching", "ready", "failed", "conflict", "superseded", "merged"}
Opened(h) == [head |-> h, checks |-> "running", merge |-> "unknown", merged |-> FALSE]
Idle == [pc |-> "idle", handoff |-> FALSE, pin |-> 0, obs |-> [head |-> 1, res |-> "watching"]]

TypeOK ==
  /\ pr \in State /\ ledger \subseteq Heads
  /\ watch \in [status : Status, pin : Pins]
  /\ phase \in {"none", "open", "merged"}
  /\ timers \subseteq Heads
  /\ worker \in [Workers -> [pc : {"idle", "register", "read", "apply", "green", "merge", "mark", "merged", "advance", "unlatch", "fail", "wake"},
                             handoff : BOOLEAN, pin : Pins, obs : [head : Heads, res : Verdict]]]
  /\ wakes \in Nat /\ regs \in 0..MaxRegs /\ faults \in 0..MaxFaults
  /\ trusted \subseteq Heads

Init ==
  /\ pr = Opened(1) /\ ledger = {1}
  /\ watch = [status |-> "none", pin |-> 0]
  /\ phase \in {"none", "open"}
  /\ timers = {} /\ worker = [w \in Workers |-> Idle]
  /\ wakes = 0 /\ regs = 0 /\ faults = 0
  /\ trusted = {}

Fault == faults < MaxFaults /\ faults' = faults + 1
Trust(h) == trusted \cup ({h} \ (ledger \cup {0}))
Go(w, st) == worker' = [worker EXCEPT ![w] = st]
To(w, pc) == Go(w, [Idle EXCEPT !.pc = pc])
OnHead(w, pc, h) == Go(w, [Idle EXCEPT !.pc = pc, !.pin = h])

Merged(s) == [Opened(s.head) EXCEPT !.merged = TRUE]

-----------------------------------------------------------------------------
(* GitHub                                                                  *)

SetPR(s) ==
  /\ pr' = s
  /\ UNCHANGED <<watch, phase, timers, worker, wakes, regs, trusted, faults>>

\* A push moves the head; checks and mergeability start over.
Push ==
  /\ ~pr.merged /\ pr.head < MaxHead
  /\ SetPR(Opened(pr.head + 1))
  /\ UNCHANGED ledger

\* The proxy reports a governed push after GitHub has it; of any other push
\* nothing is recorded.
AppendControlAction(h) ==
  /\ h \in (1..pr.head) \ ledger /\ ledger' = ledger \cup {h} /\ trusted' = trusted \ {h}
  /\ UNCHANGED <<pr, watch, phase, timers, worker, wakes, regs, faults>>

\* Checks appear, settle, and start again when another workflow registers.
Checks ==
  /\ ~pr.merged
  /\ \E c \in (IF pr.checks = "running" THEN {"red", "green"} ELSE {"running"}) :
       SetPR([pr EXCEPT !.checks = c])
  /\ UNCHANGED ledger

Mergeability ==
  /\ ~pr.merged
  /\ \E m \in {"clean", "dirty"} \ {pr.merge} : SetPR([pr EXCEPT !.merge = m])
  /\ UNCHANGED ledger

MergeOnGitHub ==
  /\ ~pr.merged /\ pr.merge = "clean" /\ SetPR(Merged(pr))
  /\ UNCHANGED ledger

-----------------------------------------------------------------------------
(* ResolvePullRequestState and classifyCIWatchState                        *)

Green(s) == s.checks = "green" /\ s.merge = "clean" /\ ~s.merged

Classify(s) ==
  CASE s.merged -> "merged"
    [] ~s.merged /\ s.merge = "dirty" -> "conflict"
    [] ~s.merged /\ s.merge # "dirty" /\ s.checks = "red" -> "failed"
    [] Green(s) -> "ready"
    [] OTHER -> IF s.merge = "unknown" THEN "unknown" ELSE "watching"

Observe(s) == [head |-> s.head, res |-> Classify(s)]

-----------------------------------------------------------------------------
(* What starts a reconcile                                                 *)

\* handleGitHubWebhook: checks of head h, or (move) the pull request itself.
Webhook(w, h, move) ==
  /\ worker[w].pc = "idle" /\ watch.status = "watching"
  /\ move \/ watch.pin \in {0, h}
  /\ h <= pr.head
  /\ Go(w, [Idle EXCEPT !.pc = "read", !.pin = watch.pin])
  /\ UNCHANGED <<github, watch, phase, timers, wakes, regs, trusted, faults>>

\* The merged delivery advances the run, then marks a row not merged yet.
WebhookMerged(w) ==
  /\ worker[w].pc = "idle" /\ pr.merged
  /\ phase' = IF phase = "none" THEN phase ELSE "merged"
  /\ watch.status \notin {"none", "merged"} \/ phase' # phase
  /\ Go(w, IF watch.status \in {"none", "merged"} THEN Idle ELSE [Idle EXCEPT !.pc = "mark"])
  /\ UNCHANGED <<github, watch, timers, wakes, regs, trusted, faults>>

\* Mutant: the backstop lists the rows that are ready.
BackstopReady(w) ==
  /\ worker[w].pc = "idle" /\ watch.status = "ready"
  /\ Go(w, [Idle EXCEPT !.pc = "read", !.pin = watch.pin])
  /\ UNCHANGED <<github, watch, phase, timers, wakes, regs, trusted, faults>>

\* reconcileStaleCIWatches: twelve minutes without an event can pass at any point.
Backstop(w) ==
  /\ worker[w].pc = "idle" /\ watch.status = "watching"
  /\ Go(w, [Idle EXCEPT !.pc = "read", !.pin = watch.pin])
  /\ UNCHANGED <<github, watch, phase, timers, wakes, regs, trusted, faults>>

\* The timer's function: the row must still be watched on the same head.
RetryFires(w, h) ==
  /\ worker[w].pc = "idle" /\ h \in timers /\ timers' = timers \ {h}
  /\ Go(w, IF watch.status = "watching" /\ watch.pin = h THEN [Idle EXCEPT !.pc = "read", !.pin = h] ELSE Idle)
  /\ UNCHANGED <<github, watch, phase, wakes, regs, trusted, faults>>

\* Register: an upsert that puts the row back to watching on the head named.
Register(w, h, next) ==
  /\ regs < MaxRegs /\ regs' = regs + 1
  /\ watch' = [watch EXCEPT !.status = "watching", !.pin = h]
  /\ trusted' = Trust(h)
  /\ Go(w, [next EXCEPT !.handoff = TRUE, !.pin = h])
  /\ UNCHANGED <<github, phase, timers, wakes, faults>>

\* By number, with the head the agent knows or none.
RegisterByNumber(w, h) ==
  /\ worker[w].pc = "idle" /\ h <= pr.head
  /\ Register(w, h, [Idle EXCEPT !.pc = "read"])

\* By branch the open pull request is read first; the governed-merge gate
\* comes this way too, with the commit it was asked about.  Without a head the
\* request is pinned to the one just read.
ResolveOpen(w, h) ==
  /\ worker[w].pc = "idle" /\ ~pr.merged /\ regs < MaxRegs /\ h <= pr.head
  /\ Go(w, [Idle EXCEPT !.pc = "register", !.pin = h, !.obs = Observe(pr)])
  /\ UNCHANGED <<github, watch, phase, timers, wakes, regs, trusted, faults>>
RegisterResolved(w) ==
  /\ worker[w].pc = "register"
  /\ Register(w, worker[w].pin, [worker[w] EXCEPT !.pc = "apply"])

-----------------------------------------------------------------------------
(* The reducer                                                             *)

\* The reads of the check runs and of the statuses fail silently, each on its
\* own: the head looks as if none had started, or as if the others were all.
Misread(s) == {[s EXCEPT !.checks = c] : c \in {"running", "green"}}

ResolveState(w) ==
  /\ worker[w].pc = "read"
  /\ \/ Go(w, [worker[w] EXCEPT !.pc = "apply", !.obs = Observe(pr)]) /\ UNCHANGED faults
     \/ Fault /\ \E s \in Misread(pr) : Go(w, [worker[w] EXCEPT !.pc = "apply", !.obs = Observe(s)])
     \/ Fault /\ Go(w, Idle)
  /\ UNCHANGED <<github, watch, phase, timers, wakes, regs, trusted>>

\* Mutant: the live head is followed wherever it goes.
NeverMoved(pin, s) == FALSE

HeadMovedOffPin(pin, s) == pin # 0 /\ s.head # pin

\* scheduleCIWatchMergeabilityRetry and cancelCIWatchMergeabilityRetry.  The
\* delays of a head run out after some attempt, whichever it is.
Retries(s) ==
  IF s.res = "unknown" THEN {timers, timers \cup {s.head}} ELSE {timers \ {s.head}}

\* Mutant: the guard on the row is dropped.
AnyRow(w) == TRUE

\* UpdateObservation's guard: still watching, on the head that was read.
RowIsAsRead(w) == watch.status = "watching" /\ worker[w].pin \in {0, watch.pin}

\* applyResolvedCIWatchState.  The loser of the guarded update stops here.
Apply(w) ==
  LET s == worker[w].obs
      moved == HeadMovedOffPin(worker[w].pin, s)
      observe ==
        /\ watch' = [status |-> IF s.res = "unknown" THEN "watching" ELSE s.res, pin |-> s.head]
        /\ timers' \in Retries(s)
        /\ CASE s.res = "ready" -> OnHead(w, "green", s.head)
             [] s.res = "merged" -> To(w, "mark")
             [] s.res \in {"failed", "conflict"} /\ ~worker[w].handoff -> To(w, "wake")
             [] OTHER -> To(w, "idle") IN
  /\ worker[w].pc = "apply"
  /\ IF ~RowIsAsRead(w) THEN To(w, "idle") /\ UNCHANGED <<watch, timers, trusted, faults>>
     ELSE \/ /\ ~moved \/ s.head \in ledger
             /\ observe
             /\ trusted' = IF worker[w].pin = 0 THEN Trust(s.head) ELSE trusted
             /\ UNCHANGED faults
          \/ /\ moved /\ Fault            \* headMoveIsGoverned fails open
             /\ observe /\ trusted' = Trust(s.head)
          \/ /\ moved /\ s.head \notin ledger
             /\ watch' = [watch EXCEPT !.status = "superseded"]
             /\ To(w, "idle") /\ UNCHANGED <<timers, trusted, faults>>
  /\ UNCHANGED <<github, phase, wakes, regs>>

\* handleGreenCIWatch: without a phase, or if its lookup failed, the row is
\* written ready once more; with one the state is read again before the
\* auto-merge.
ConfirmedSettledGreen(s, h) == Green(s) /\ s.head = h

MarkReady(w) ==
  /\ worker[w].pc = "green"
  /\ (phase = "none" /\ UNCHANGED faults) \/ Fault
  /\ watch' = [watch EXCEPT !.status = "ready"] /\ Go(w, Idle)
  /\ UNCHANGED <<github, phase, timers, wakes, regs, trusted>>

HandleGreen(w) ==
  /\ worker[w].pc = "green"
  /\ \/ phase = "merged" /\ Go(w, Idle) /\ UNCHANGED faults
     \/ phase = "open" /\ To(w, "fail") /\ UNCHANGED faults   \* blocked by its spoke
     \/ /\ phase = "open"
        /\ \E s \in {pr} \cup Misread(pr) :
             /\ (s = pr /\ UNCHANGED faults) \/ Fault
             /\ IF s.merged THEN To(w, "merged")
                ELSE IF ConfirmedSettledGreen(s, worker[w].pin) THEN OnHead(w, "merge", worker[w].pin)
                ELSE To(w, "unlatch")
  /\ UNCHANGED <<github, watch, phase, timers, wakes, regs, trusted>>

\* Not a settled green after all: back to watching.
Unlatch(w) ==
  /\ worker[w].pc = "unlatch"
  /\ watch' = [watch EXCEPT !.status = "watching"] /\ Go(w, Idle)
  /\ UNCHANGED <<github, phase, timers, wakes, regs, trusted, faults>>

\* MergePRWithHead: GitHub takes it on that very head.  The answer can be lost.
MergePRWithHead(w) ==
  LET ok == ~pr.merged /\ pr.merge = "clean" /\ pr.head = worker[w].pin IN
  /\ worker[w].pc = "merge"
  /\ pr' = IF ok THEN Merged(pr) ELSE pr
  /\ IF ok THEN \/ To(w, "merged") /\ UNCHANGED faults
                \/ Fault /\ To(w, "fail")
     ELSE To(w, "fail") /\ UNCHANGED faults
  /\ UNCHANGED <<ledger, watch, phase, timers, wakes, regs, trusted>>

\* The auto-merge goes on to its phase; a failed mark is only logged.
MarkMerged(w) ==
  /\ worker[w].pc \in {"mark", "merged"}
  /\ \/ watch' = [watch EXCEPT !.status = "merged"] /\ UNCHANGED faults
     \/ Fault /\ UNCHANGED watch
  /\ IF worker[w].pc = "merged" THEN To(w, "advance") ELSE Go(w, Idle)
  /\ UNCHANGED <<github, phase, timers, wakes, regs, trusted>>

AdvanceOnMerge(w) ==
  /\ worker[w].pc = "advance" /\ Go(w, Idle)
  /\ \/ phase' = "merged" /\ UNCHANGED faults
     \/ Fault /\ UNCHANGED phase
  /\ UNCHANGED <<github, watch, timers, wakes, regs, trusted>>

AutoMergeFails(w) ==
  /\ worker[w].pc = "fail"
  /\ watch' = [watch EXCEPT !.status = "failed"] /\ To(w, "wake")
  /\ UNCHANGED <<github, phase, timers, wakes, regs, trusted, faults>>

\* wakeSessionForCI: a turn for the agent; a failed enqueue is only logged.
WakeSessionForCI(w) ==
  /\ worker[w].pc = "wake" /\ Go(w, Idle)
  /\ \/ wakes' = wakes + 1 /\ UNCHANGED faults
     \/ Fault /\ UNCHANGED wakes
  /\ UNCHANGED <<github, watch, phase, timers, regs, trusted>>

\* handleMergeSessionPR: the human's merge, on whatever head there is.
HumanMerge(w) ==
  /\ worker[w].pc = "idle" /\ watch.status \notin {"none", "merged"}
  /\ ~pr.merged /\ pr.merge = "clean" /\ pr' = Merged(pr)
  /\ Go(w, [Idle EXCEPT !.pc = "mark"])
  /\ UNCHANGED <<ledger, watch, phase, timers, wakes, regs, trusted, faults>>

\* The process restarts: goroutines and timers are gone.
Restart ==
  /\ Fault /\ timers' = {} /\ worker' = [w \in Workers |-> Idle]
  /\ worker # worker' \/ timers # {}
  /\ UNCHANGED <<github, watch, phase, wakes, regs, trusted>>

-----------------------------------------------------------------------------
Step(w) ==
  \/ RegisterResolved(w) \/ ResolveState(w) \/ Apply(w) \/ MarkReady(w) \/ HandleGreen(w)
  \/ Unlatch(w) \/ MergePRWithHead(w) \/ MarkMerged(w) \/ AdvanceOnMerge(w) \/ AutoMergeFails(w) \/ WakeSessionForCI(w)

Next ==
  \/ Push
  \/ \E h \in Heads : AppendControlAction(h)
  \/ Checks \/ Mergeability \/ MergeOnGitHub \/ Restart
  \/ \E w \in Workers :
       \/ Step(w) \/ Backstop(w) \/ WebhookMerged(w) \/ HumanMerge(w)
       \/ \E h \in Heads, move \in BOOLEAN : Webhook(w, h, move)
       \/ \E h \in timers : RetryFires(w, h)
       \/ \E h \in Pins : RegisterByNumber(w, h)
       \/ \E h \in Heads : ResolveOpen(w, h)

\* The loop of the backstop never stops and a goroutine goes on; nothing is
\* assumed of GitHub and its webhooks.
Spec ==
  /\ Init /\ [][Next]_vars
  /\ \A w \in Workers : WF_vars(Step(w) \/ Backstop(w))
-----------------------------------------------------------------------------
(* Properties                                                              *)

\* The agent is woken at most once per registration, however many webhooks,
\* polls and backstop passes see the failure (ci_watch_reconcile.go:116).
OneWakePerRegistration == wakes <= regs

\* A watch says merged, and a phase is advanced, only when GitHub has merged
\* (ci_auto_merge.go:71, github_webhook.go:200).
MergedIsMerged == (watch.status = "merged" \/ phase = "merged") => pr.merged

\* Nothing is merged without a human on a head nobody registered and no governed
\* push produced, as long as the ledger can be read (ci_watch_reconcile.go:72).
AutoMerges == pr'.merged /\ ~pr.merged /\ \E w \in Workers : worker[w].pc = "merge" /\ worker'[w].pc # "merge"
AutoMergeFollowsPin == [][AutoMerges => pr.head \in trusted \cup ledger]_vars

\* A watch does not stay open while GitHub shows the outcome, whatever webhooks
\* and timers are lost (ci_watch_reconcile_loop.go:17).
Decided == Classify(pr) \notin {"watching", "unknown"}
WatchResolves == []<>~(watch.status = "watching" /\ Decided)

\* One wake for a failure and no merge but GitHub's, however observers overlap.
WatchSafe == TypeOK /\ OneWakePerRegistration /\ MergedIsMerged
=============================================================================
