--------------------------- MODULE CIWatch_proof ---------------------------
(***************************************************************************)
(* One wake per registration, no merge but GitHub's, and no auto-merge off the *)
(* pin: proofs about CIWatch, for any number of goroutines, heads,         *)
(* registrations and faults.                                               *)
(***************************************************************************)
EXTENDS CIWatch, FiniteSetTheorems, TLAPS

-----------------------------------------------------------------------------
\* The places of a goroutine.
PCs == {"idle", "register", "read", "apply", "green", "merge", "mark", "merged", "advance", "unlatch", "fail", "wake"}
\* The states of a goroutine.
Routines == [pc : PCs, handoff : BOOLEAN, pin : Pins, obs : [head : Heads, res : Verdict]]

\* What a goroutine carries is true: it saw the merge it reports, and the head
\* it may merge is one of those given, the trusted and the governed ones.
RoutineOK(q, m, heads) ==
  /\ q.obs.res = "merged" \/ q.pc \in {"mark", "merged", "advance"} => m
  /\ q.pc \in {"green", "merge"} => q.pin \in heads

\* A goroutine that took the row out of watching and may put it back or wake the
\* agent is good for one wake,
Owing == {"green", "merge", "unlatch", "fail", "wake"}
\* counted here,
Due(c) == IF c \in Owing THEN 1 ELSE 0
\* and so is a row that is watched.
Open(st) == IF st = "watching" THEN 1 ELSE 0
\* The goroutines that may still wake.
Debtors == {v \in Workers : worker[v].pc \in Owing}

\* The types of everything but the goroutines, with what the row promises: its
\* head is trusted or governed, and merged is merged.
World ==
  /\ pr \in State /\ ledger \subseteq Heads
  /\ watch \in [status : Status, pin : Pins]
  /\ phase \in {"none", "open", "merged"}
  /\ timers \subseteq Heads
  /\ wakes \in Nat /\ regs \in 0..MaxRegs /\ faults \in 0..MaxFaults
  /\ trusted \subseteq Heads
  /\ watch.pin = 0 \/ watch.pin \in trusted \cup ledger
  /\ MergedIsMerged

\* The invariant.  Wakes made, wakes that goroutines are good for and the one
\* that a watched row is good for never exceed the registrations: only Register
\* adds one, every other write of the row moves or drops it.
WatchInv ==
  /\ World
  /\ worker \in [Workers -> Routines]
  /\ \A v \in Workers : RoutineOK(worker[v], pr.merged, trusted \cup ledger)
  /\ Open(watch.status) + Cardinality(Debtors) + wakes <= regs

\* Merges and trust stay.
Onwards ==
  /\ pr.merged => pr'.merged
  /\ trusted \cup ledger \subseteq trusted' \cup ledger'

\* Goroutine w goes on in c and pays for what the step puts into the row and the wakes.
Pays(w, c) ==
  Open(watch'.status) + Due(c) + wakes' + regs <= Open(watch.status) + Due(worker[w].pc) + wakes + regs'

\* A step of goroutine w after which the rest is right, it is right itself, and
\* it pays for what it puts into the row, the wakes and its own debt.
Fine(w) ==
  /\ World' /\ Onwards
  /\ \E q \in Routines :
       /\ worker' = [worker EXCEPT ![w] = q]
       /\ RoutineOK(q, pr'.merged, trusted' \cup ledger')
       /\ Pays(w, q.pc)

USE BoundsAssumption DEF BoundsAssumption

\* Moving one goroutine changes the number of debtors by its own debt.
LEMMA DebtMoves ==
  ASSUME worker \in [Workers -> Routines], NEW w \in Workers, NEW q \in Routines,
         worker' = [worker EXCEPT ![w] = q]
  PROVE  /\ Cardinality(Debtors) \in Nat /\ Cardinality(Debtors') \in Nat
         /\ Cardinality(Debtors') + Due(worker[w].pc) = Cardinality(Debtors) + Due(q.pc)
<1>1. IsFiniteSet(Debtors) /\ IsFiniteSet(Debtors')
  BY FS_Subset DEF Debtors
<1>2. Cardinality(Debtors) \in Nat /\ Cardinality(Debtors') \in Nat
  BY <1>1, FS_CardinalityType
<1>3. w \in Debtors <=> worker[w].pc \in Owing
  BY DEF Debtors
<1>4. w \in Debtors' <=> q.pc \in Owing
  BY DEF Debtors
<1>5. \A v \in Workers : v # w => (v \in Debtors' <=> v \in Debtors)
  BY DEF Debtors
<1>6. Debtors \subseteq Workers /\ Debtors' \subseteq Workers
  BY DEF Debtors
<1>7. CASE worker[w].pc \in Owing /\ q.pc \in Owing
  <2>1. Debtors' = Debtors
    BY <1>3, <1>4, <1>5, <1>6, <1>7
  <2> QED
    BY <1>2, <1>7, <2>1 DEF Due
<1>8. CASE worker[w].pc \notin Owing /\ q.pc \notin Owing
  <2>1. Debtors' = Debtors
    BY <1>3, <1>4, <1>5, <1>6, <1>8
  <2> QED
    BY <1>2, <1>8, <2>1 DEF Due
<1>9. CASE worker[w].pc \in Owing /\ q.pc \notin Owing
  <2>1. Debtors' = Debtors \ {w} /\ w \in Debtors
    BY <1>3, <1>4, <1>5, <1>6, <1>9
  <2>2. Cardinality(Debtors') = Cardinality(Debtors) - 1
    BY <1>1, <2>1, FS_RemoveElement
  <2> QED
    BY <1>2, <1>9, <2>2 DEF Due
<1>10. CASE worker[w].pc \notin Owing /\ q.pc \in Owing
  <2>1. Debtors' = Debtors \cup {w} /\ w \notin Debtors
    BY <1>3, <1>4, <1>5, <1>6, <1>10
  <2>2. Cardinality(Debtors') = Cardinality(Debtors) + 1
    BY <1>1, <2>1, FS_AddElement
  <2> QED
    BY <1>2, <1>10, <2>2 DEF Due
<1> QED
  BY <1>7, <1>8, <1>9, <1>10, <1>2

\* What a goroutine carries stays true.
LEMMA RoutineKept ==
  ASSUME Onwards, NEW q, RoutineOK(q, pr.merged, trusted \cup ledger)
  PROVE  RoutineOK(q, pr'.merged, trusted' \cup ledger')
  BY DEF Onwards, RoutineOK

\* Such a step keeps the invariant.
LEMMA FineStep == ASSUME WatchInv, NEW w \in Workers, Fine(w) PROVE WatchInv'
<1>1. PICK q \in Routines :
       /\ worker' = [worker EXCEPT ![w] = q]
       /\ RoutineOK(q, pr'.merged, trusted' \cup ledger')
       /\ Pays(w, q.pc)
  BY DEF Fine
<1>2. World' /\ Onwards
  BY DEF Fine
<1>3. worker' \in [Workers -> Routines]
  BY <1>1 DEF WatchInv
<1>4. \A v \in Workers : RoutineOK(worker'[v], pr'.merged, trusted' \cup ledger')
  <2>1. ASSUME NEW v \in Workers PROVE RoutineOK(worker'[v], pr'.merged, trusted' \cup ledger')
    <3>1. CASE v = w
      BY <1>1, <3>1 DEF WatchInv
    <3>2. CASE v # w
      <4>1. worker'[v] = worker[v] /\ RoutineOK(worker[v], pr.merged, trusted \cup ledger)
        BY <1>1, <3>2 DEF WatchInv
      <4> QED
        BY <1>2, <4>1, RoutineKept
    <3> QED
      BY <3>1, <3>2
  <2> QED
    BY <2>1
<1>5. Open(watch'.status) + Cardinality(Debtors') + wakes' <= regs'
  <2>1. /\ Cardinality(Debtors) \in Nat /\ Cardinality(Debtors') \in Nat
        /\ Cardinality(Debtors') + Due(worker[w].pc) = Cardinality(Debtors) + Due(q.pc)
    BY <1>1, DebtMoves DEF WatchInv
  <2>2. /\ wakes \in Nat /\ wakes' \in Nat /\ regs \in Nat /\ regs' \in Nat
    BY <1>2 DEF WatchInv, World
  <2>3. /\ Open(watch.status) \in Nat /\ Open(watch'.status) \in Nat
        /\ Due(worker[w].pc) \in Nat /\ Due(q.pc) \in Nat
    BY DEF Open, Due
  <2>4. Open(watch.status) + Cardinality(Debtors) + wakes <= regs
    BY DEF WatchInv
  <2> QED
    BY <1>1, <2>1, <2>2, <2>3, <2>4 DEF Pays
<1> QED
  BY <1>2, <1>3, <1>4, <1>5 DEF WatchInv, Debtors

\* A step that no goroutine takes and that neither wakes nor registers.
LEMMA QuietStep ==
  ASSUME WatchInv, World', Onwards, worker' = worker, watch' = watch, wakes' = wakes, regs' = regs
  PROVE  WatchInv'
<1>1. \A v \in Workers : RoutineOK(worker'[v], pr'.merged, trusted' \cup ledger')
  BY RoutineKept DEF WatchInv
<1>2. Debtors' = Debtors
  BY DEF Debtors
<1> QED
  BY <1>1, <1>2 DEF WatchInv

\* The fields of a goroutine that starts over.
LEMMA FreshFields ==
  /\ Idle \in Routines /\ Idle.pc = "idle" /\ Idle.obs.res = "watching"
  /\ \A c \in PCs : LET q == [Idle EXCEPT !.pc = c] IN
       q \in Routines /\ q.pc = c /\ q.obs.res = "watching"
<1>0. 1 \in Heads /\ 0 \in Pins
  BY DEF Heads, Pins
<1>1. Idle \in Routines /\ Idle.pc = "idle" /\ Idle.obs.res = "watching"
  BY <1>0 DEF Idle, Routines, PCs, Verdict
<1>2. ASSUME NEW c \in PCs PROVE LET q == [Idle EXCEPT !.pc = c] IN
       q \in Routines /\ q.pc = c /\ q.obs.res = "watching"
  BY <1>1 DEF Routines
<1> QED
  BY <1>1, <1>2

\* A goroutine that starts over with its pc, or with its pc and a head.
Fresh(q, c, h) == q \in Routines /\ q.pc = c /\ q.obs.res = "watching" /\ (h # 0 => q.pin = h)

\* Idle is one,
LEMMA FreshIdle == Fresh(Idle, "idle", 0)
  BY FreshFields DEF Fresh

\* To makes one,
LEMMA FreshTo == ASSUME NEW w, NEW c \in PCs, To(w, c)
  PROVE \E q : Fresh(q, c, 0) /\ worker' = [worker EXCEPT ![w] = q]
<1> DEFINE q == [Idle EXCEPT !.pc = c]
<1>1. q \in Routines /\ q.pc = c /\ q.obs.res = "watching"
  BY FreshFields
<1>2. worker' = [worker EXCEPT ![w] = q]
  BY DEF To, Go
<1> HIDE DEF q
<1> QED
  BY <1>1, <1>2 DEF Fresh

\* and OnHead.
LEMMA FreshOn == ASSUME NEW c \in PCs, NEW h \in Pins
  PROVE Fresh([Idle EXCEPT !.pc = c, !.pin = h], c, h)
<1> DEFINE q == [Idle EXCEPT !.pc = c, !.pin = h]
<1>0. Idle \in Routines /\ Idle.obs.res = "watching"
  BY FreshFields
<1>1. q \in Routines /\ q.pc = c /\ q.pin = h /\ q.obs.res = "watching"
  BY <1>0 DEF Routines
<1> HIDE DEF q
<1>2. Fresh(q, c, h)
  BY <1>1 DEF Fresh
<1> QED
  BY <1>2 DEF q

\* A step that ends in a fresh goroutine is fine when the rest is.
LEMMA FreshFine ==
  ASSUME NEW w \in Workers, World', Onwards, NEW q, NEW c, NEW h, Fresh(q, c, h),
         worker' = [worker EXCEPT ![w] = q],
         c \in {"mark", "merged", "advance"} => pr'.merged,
         c \in {"green", "merge"} => h # 0 /\ h \in trusted' \cup ledger',
         Pays(w, c)
  PROVE  Fine(w)
<1>1. RoutineOK(q, pr'.merged, trusted' \cup ledger')
  BY DEF Fresh, RoutineOK
<1>2. q \in Routines /\ q.pc = c
  BY DEF Fresh
<1> QED
  BY <1>1, <1>2 DEF Fine

\* The invariant of one goroutine, and of the numbers.
LEMMA Here ==
  ASSUME WatchInv, NEW w \in Workers
  PROVE  /\ worker[w] \in Routines /\ RoutineOK(worker[w], pr.merged, trusted \cup ledger)
         /\ World /\ wakes \in Nat /\ regs \in Nat /\ faults \in Nat
         /\ \A c : Due(c) \in {0, 1} /\ Open(c) \in {0, 1}
  BY DEF WatchInv, World, Due, Open

\* A fault is counted.
LEMMA FaultTyped == ASSUME World, Fault PROVE faults' \in 0..MaxFaults
  BY DEF World, Fault

\* A step that leaves GitHub, the row and the counters alone.
Still ==
  /\ UNCHANGED <<pr, ledger, watch, phase, wakes, regs, trusted>>
  /\ timers' \subseteq Heads /\ faults' \in 0..MaxFaults

\* It is fine when the goroutine owes no more than before.
LEMMA StillFine ==
  ASSUME WatchInv, NEW w \in Workers, Still, NEW q, NEW c, NEW h, Fresh(q, c, h),
         worker' = [worker EXCEPT ![w] = q],
         c \in {"mark", "merged", "advance"} => pr.merged,
         c \in {"green", "merge"} => h # 0 /\ h \in trusted \cup ledger,
         Due(c) <= Due(worker[w].pc)
  PROVE  Fine(w)
<1>1. World' /\ Onwards
  BY Here DEF World, Still, Onwards, MergedIsMerged
<1>2. Pays(w, c)
  BY Here DEF Still, Pays
<1> QED
  BY <1>1, <1>2, FreshFine DEF Still

\* Webhooks, retries and the backstop only start a read.
LEMMA WakeupsFine ==
  ASSUME WatchInv, NEW w \in Workers,
         \/ Backstop(w) \/ (\E h \in Heads, move \in BOOLEAN : Webhook(w, h, move))
         \/ (\E h \in timers : RetryFires(w, h))
  PROVE  Fine(w)
<1>0. World /\ watch.pin \in Pins /\ timers \subseteq Heads /\ faults \in 0..MaxFaults
  BY Here DEF World
<1>1. Still
  BY <1>0 DEF Still, Backstop, Webhook, RetryFires, github
<1>2. \/ worker' = [worker EXCEPT ![w] = Idle]
      \/ \E h \in Pins : worker' = [worker EXCEPT ![w] = [Idle EXCEPT !.pc = "read", !.pin = h]]
  BY <1>0 DEF Backstop, Webhook, RetryFires, Go
<1>3. Due("idle") = 0 /\ Due("read") = 0 /\ Due(worker[w].pc) >= 0
  BY DEF Due, Owing
<1>4. CASE worker' = [worker EXCEPT ![w] = Idle]
  BY <1>1, <1>3, <1>4, FreshIdle, StillFine
<1>5. CASE \E h \in Pins : worker' = [worker EXCEPT ![w] = [Idle EXCEPT !.pc = "read", !.pin = h]]
  <2>1. PICK h \in Pins : worker' = [worker EXCEPT ![w] = [Idle EXCEPT !.pc = "read", !.pin = h]]
    BY <1>5
  <2>2. Fresh([Idle EXCEPT !.pc = "read", !.pin = h], "read", h)
    BY FreshOn DEF PCs
  <2> QED
    BY <1>1, <1>3, <2>1, <2>2, StillFine
<1> QED
  BY <1>2, <1>4, <1>5

\* The merged delivery comes after the merge.
LEMMA WebhookMergedFine == ASSUME WatchInv, NEW w \in Workers, WebhookMerged(w) PROVE Fine(w)
<1>0. World
  BY Here
<1>1. World' /\ Onwards
  BY <1>0 DEF World, Onwards, WebhookMerged, MergedIsMerged, github
<1>2. UNCHANGED <<watch, wakes, regs>> /\ pr'.merged /\ Due("idle") = 0 /\ Due("mark") = 0
  BY DEF WebhookMerged, github, Due, Owing
<1>3. worker' = [worker EXCEPT ![w] = Idle] \/ worker' = [worker EXCEPT ![w] = [Idle EXCEPT !.pc = "mark"]]
  BY DEF WebhookMerged, Go
<1>4. Fresh(Idle, "idle", 0) /\ Fresh([Idle EXCEPT !.pc = "mark"], "mark", 0)
  BY FreshFields DEF Fresh, PCs
<1>5. Pays(w, "idle") /\ Pays(w, "mark")
  BY <1>2, Here DEF Pays
<1> QED
  BY <1>1, <1>2, <1>3, <1>4, <1>5, FreshFine

\* So does what follows a human's merge.
LEMMA HumanFine == ASSUME WatchInv, NEW w \in Workers, HumanMerge(w) PROVE Fine(w)
<1>0. World
  BY Here
<1>1. pr' \in State /\ pr'.merged
  BY <1>0 DEF HumanMerge, Merged, Opened, State, World
<1>2. World' /\ Onwards
  BY <1>0, <1>1 DEF World, Onwards, HumanMerge, MergedIsMerged
<1>3. UNCHANGED <<watch, wakes, regs>> /\ Due("mark") = 0
  BY DEF HumanMerge, Due, Owing
<1>4. worker' = [worker EXCEPT ![w] = [Idle EXCEPT !.pc = "mark"]]
  BY DEF HumanMerge, Go
<1>5. Fresh([Idle EXCEPT !.pc = "mark"], "mark", 0)
  BY FreshFields DEF Fresh, PCs
<1>6. Pays(w, "mark")
  BY <1>3, Here DEF Pays, Pays
<1> QED
  BY <1>1, <1>2, <1>3, <1>4, <1>5, <1>6, FreshFine

\* A head that is followed is trusted from then on, or was governed.
LEMMA TrustKept ==
  ASSUME World, NEW h \in Pins
  PROVE  /\ Trust(h) \subseteq Heads /\ trusted \cup ledger \subseteq Trust(h) \cup ledger
         /\ h = 0 \/ h \in Trust(h) \cup ledger
  BY DEF World, Trust, Heads, Pins

\* A reading says merged only of what is merged.
LEMMA ObserveTyped ==
  ASSUME NEW st \in State
  PROVE  /\ Observe(st) \in [head : Heads, res : Verdict] /\ Observe(st).head = st.head
         /\ Observe(st).res = "merged" => st.merged
<1>1. Classify(st) \in Verdict /\ (Classify(st) = "merged" => st.merged)
  BY DEF Classify, Verdict, Green, State
<1>2. st.head \in Heads
  BY DEF State
<1> QED
  BY <1>1, <1>2 DEF Observe

\* Register puts the row back to watching, and with it one wake.
LEMMA RegisterFine ==
  ASSUME WatchInv, NEW w \in Workers, NEW h \in Pins, NEW o \in Routines, Register(w, h, o),
         o.pc \in {"read", "apply"}, o.obs.res = "merged" => pr.merged
  PROVE  Fine(w)
<1> DEFINE q == [o EXCEPT !.handoff = TRUE, !.pin = h]
<1>0. World
  BY Here
<1>1. /\ regs < MaxRegs /\ regs' = regs + 1 /\ trusted' = Trust(h)
      /\ watch' = [watch EXCEPT !.status = "watching", !.pin = h]
      /\ worker' = [worker EXCEPT ![w] = q]
      /\ UNCHANGED <<pr, ledger, phase, timers, wakes, faults>>
  BY DEF Register, Go, github
<1>2. q \in Routines /\ q.pc = o.pc /\ q.obs = o.obs
  BY DEF Routines
<1> HIDE DEF q
<1>3. watch' \in [status : Status, pin : Pins] /\ watch'.status = "watching" /\ watch'.pin = h
  BY <1>0, <1>1 DEF World, Status
<1>4. regs' \in 0..MaxRegs
  BY <1>0, <1>1 DEF World
<1>5. Onwards /\ trusted' \subseteq Heads /\ (h = 0 \/ h \in trusted' \cup ledger')
  BY <1>0, <1>1, TrustKept DEF Onwards
<1>6. World'
  BY <1>0, <1>1, <1>3, <1>4, <1>5 DEF World, MergedIsMerged
<1>7. RoutineOK(q, pr'.merged, trusted' \cup ledger')
  BY <1>1, <1>2 DEF RoutineOK
<1>8. Due(q.pc) = 0 /\ Open(watch'.status) = 1
  BY <1>2, <1>3 DEF Due, Owing, Open
<1>9. Pays(w, q.pc)
  BY <1>1, <1>8, Here DEF Pays
<1> QED
  BY <1>1, <1>2, <1>5, <1>6, <1>7, <1>9 DEF Fine

\* Both ways to register do so.
LEMMA RegisteringFine ==
  ASSUME WatchInv, NEW w \in Workers,
         RegisterResolved(w) \/ \E h \in Pins : RegisterByNumber(w, h)
  PROVE  Fine(w)
<1>1. CASE RegisterResolved(w)
  <2> DEFINE o == [worker[w] EXCEPT !.pc = "apply"]
  <2>1. worker[w] \in Routines /\ RoutineOK(worker[w], pr.merged, trusted \cup ledger)
    BY Here
  <2>2. o \in Routines /\ o.pc = "apply" /\ o.obs = worker[w].obs /\ worker[w].pin \in Pins
    BY <2>1 DEF Routines, PCs
  <2>3. Register(w, worker[w].pin, o)
    BY <1>1 DEF RegisterResolved
  <2>4. o.obs.res = "merged" => pr.merged
    BY <2>1, <2>2 DEF RoutineOK
  <2> HIDE DEF o
  <2> QED
    BY <2>2, <2>3, <2>4, RegisterFine
<1>2. CASE \E h \in Pins : RegisterByNumber(w, h)
  <2>1. PICK h \in Pins : Register(w, h, [Idle EXCEPT !.pc = "read"])
    BY <1>2 DEF RegisterByNumber
  <2> DEFINE o == [Idle EXCEPT !.pc = "read"]
  <2>2. o \in Routines /\ o.pc = "read" /\ o.obs.res = "watching"
    BY FreshFields DEF PCs
  <2>3. Register(w, h, o)
    BY <2>1
  <2> HIDE DEF o
  <2> QED
    BY <2>2, <2>3, RegisterFine
<1> QED
  BY <1>1, <1>2

\* A goroutine that takes a reading with it.
LEMMA ReadingFine ==
  ASSUME WatchInv, NEW w \in Workers, Still, NEW q \in Routines, NEW st \in State,
         worker' = [worker EXCEPT ![w] = q], q.pc \in {"register", "apply"}, q.obs = Observe(st),
         st.merged = pr.merged
  PROVE  Fine(w)
<1>1. World' /\ Onwards
  BY Here DEF World, Still, Onwards, MergedIsMerged
<1>2. RoutineOK(q, pr'.merged, trusted' \cup ledger')
  BY ObserveTyped DEF Still, RoutineOK
<1>3. Due(q.pc) = 0
  BY DEF Due, Owing
<1>4. Pays(w, q.pc)
  BY <1>3, Here DEF Still, Pays
<1> QED
  BY <1>1, <1>2, <1>4 DEF Fine

\* A registration by branch reads first.
LEMMA ResolveOpenFine ==
  ASSUME WatchInv, NEW w \in Workers, NEW h \in Heads, ResolveOpen(w, h)
  PROVE  Fine(w)
<1> DEFINE ob == Observe(pr)
           q == [Idle EXCEPT !.pc = "register", !.pin = h, !.obs = ob]
<1>0. World /\ pr \in State
  BY Here DEF World
<1>1. Still /\ worker' = [worker EXCEPT ![w] = q]
  BY <1>0 DEF ResolveOpen, Still, Go, World, github
<1>2. ob \in [head : Heads, res : Verdict]
  BY <1>0, ObserveTyped
<1>3. Idle \in Routines /\ h \in Pins
  BY FreshFields DEF Heads, Pins
<1> HIDE DEF ob
<1>4. q \in Routines /\ q.pc = "register" /\ q.obs = ob
  BY <1>2, <1>3 DEF Routines, PCs
<1> HIDE DEF q
<1> QED
  BY <1>0, <1>1, <1>4, ReadingFine DEF ob

\* Goroutine w goes on to the reducer with a reading of st.
Reads(w, st) ==
  /\ st.merged = pr.merged
  /\ worker' = [worker EXCEPT ![w] = [worker[w] EXCEPT !.pc = "apply", !.obs = Observe(st)]]

\* A read that lost some of the checks is of the same pull request.
LEMMA MisreadTyped == ASSUME pr \in State, NEW st \in Misread(pr)
                      PROVE  st \in State /\ st.merged = pr.merged /\ st.head = pr.head
  BY DEF Misread, State

\* A read, or one that lost some of the checks.
LEMMA ResolveStateFine == ASSUME WatchInv, NEW w \in Workers, ResolveState(w) PROVE Fine(w)
<1>0. World /\ pr \in State /\ worker[w] \in Routines
  BY Here DEF World
<1>1. Still
  <2>1. faults' = faults \/ Fault
    BY DEF ResolveState
  <2>2. faults' \in 0..MaxFaults
    BY <1>0, <2>1, FaultTyped DEF World
  <2> QED
    BY <1>0, <2>2 DEF ResolveState, Still, World, github
<1>2. \/ worker' = [worker EXCEPT ![w] = Idle]
      \/ \E st \in State : Reads(w, st)
  <2>1. \A st \in Misread(pr) : st \in State /\ st.merged = pr.merged
    BY <1>0, MisreadTyped
  <2> QED
    BY <1>0, <2>1 DEF ResolveState, Go, Reads
<1>3. CASE worker' = [worker EXCEPT ![w] = Idle]
  <2>1. Due("idle") = 0 /\ Due(worker[w].pc) >= 0
    BY DEF Due, Owing
  <2> QED
    BY <1>1, <1>3, <2>1, FreshIdle, StillFine
<1>4. CASE \E st \in State : Reads(w, st)
  <2>1. PICK st \in State : Reads(w, st)
    BY <1>4
  <2> DEFINE ob == Observe(st)
             q == [worker[w] EXCEPT !.pc = "apply", !.obs = ob]
  <2>2. ob \in [head : Heads, res : Verdict] /\ worker' = [worker EXCEPT ![w] = q]
    BY <2>1, ObserveTyped DEF Reads
  <2> HIDE DEF ob
  <2>3. q \in Routines /\ q.pc = "apply" /\ q.obs = ob
    BY <1>0, <2>2 DEF Routines, PCs
  <2> HIDE DEF q
  <2> QED
    BY <1>1, <2>1, <2>2, <2>3, ReadingFine DEF ob, Reads
<1> QED
  BY <1>2, <1>3, <1>4

\* The row as the reducer leaves it, and the goroutine that comes of it.
Observes(w) ==
  LET s == worker[w].obs IN
  /\ watch' = [status |-> IF s.res = "unknown" THEN "watching" ELSE s.res, pin |-> s.head]
  /\ timers' \in Retries(s)
  /\ \/ s.res = "ready" /\ OnHead(w, "green", s.head)
     \/ s.res = "merged" /\ To(w, "mark")
     \/ s.res \in {"failed", "conflict"} /\ To(w, "wake")
     \/ To(w, "idle")

\* The guarded update takes the row out of watching and hands its wake on, to at
\* most one goroutine.
LEMMA ObservesFine ==
  ASSUME WatchInv, NEW w \in Workers, worker[w].pc = "apply", RowIsAsRead(w), Observes(w),
         trusted' \subseteq Heads, trusted \cup ledger \subseteq trusted' \cup ledger,
         worker[w].obs.head \in trusted' \cup ledger,
         faults' \in 0..MaxFaults, UNCHANGED <<pr, ledger, phase, wakes, regs>>
  PROVE  Fine(w)
<1> DEFINE s == worker[w].obs
<1>0. World /\ worker[w] \in Routines /\ RoutineOK(worker[w], pr.merged, trusted \cup ledger)
  BY Here
<1>1. s \in [head : Heads, res : Verdict] /\ (s.res = "merged" => pr.merged)
  BY <1>0 DEF Routines, RoutineOK
<1>2. s.head \in Heads /\ s.head \in Pins /\ s.head # 0 /\ s.res \in Verdict
  BY <1>1 DEF Heads, Pins
<1>3. /\ watch' = [status |-> IF s.res = "unknown" THEN "watching" ELSE s.res, pin |-> s.head]
      /\ timers' \in Retries(s)
      /\ \/ s.res = "ready" /\ OnHead(w, "green", s.head)
         \/ s.res = "merged" /\ To(w, "mark")
         \/ s.res \in {"failed", "conflict"} /\ To(w, "wake")
         \/ To(w, "idle")
  BY DEF Observes
<1>4. s.head \in trusted' \cup ledger'
  OBVIOUS
<1> HIDE DEF s
<1>5. /\ watch' \in [status : Status, pin : Pins] /\ watch'.pin = s.head
      /\ watch'.status = "merged" => pr.merged
      /\ watch'.status = "watching" <=> s.res \in {"unknown", "watching"}
  BY <1>1, <1>2, <1>3 DEF Status, Verdict
<1>6. timers' \subseteq Heads
  BY <1>0, <1>2, <1>3 DEF Retries, World
<1>7. World' /\ Onwards
  BY <1>0, <1>4, <1>5, <1>6 DEF World, Onwards, MergedIsMerged
<1>8. Open(watch.status) = 1 /\ Due(worker[w].pc) = 0
  BY DEF RowIsAsRead, Open, Due, Owing
<1>9. CASE s.res = "ready" /\ OnHead(w, "green", s.head)
  <2>1. worker' = [worker EXCEPT ![w] = [Idle EXCEPT !.pc = "green", !.pin = s.head]]
    BY <1>9 DEF OnHead, Go
  <2>2. Fresh([Idle EXCEPT !.pc = "green", !.pin = s.head], "green", s.head)
    BY <1>2, FreshOn DEF PCs
  <2>3. Open(watch'.status) = 0 /\ Due("green") = 1
    BY <1>5, <1>9 DEF Open, Due, Owing
  <2>4. Pays(w, "green")
    BY <1>8, <2>3, Here DEF Pays
  <2>5. PICK q : Fresh(q, "green", s.head) /\ worker' = [worker EXCEPT ![w] = q]
    BY <2>1, <2>2
  <2>6. s.head # 0 /\ s.head \in trusted' \cup ledger'
    BY <1>2, <1>4
  <2> QED
    BY <1>7, <2>4, <2>5, <2>6, FreshFine
<1>10. CASE s.res = "merged" /\ To(w, "mark")
  <2>1. PICK q : Fresh(q, "mark", 0) /\ worker' = [worker EXCEPT ![w] = q]
    BY <1>10, FreshTo DEF PCs
  <2>3. Open(watch'.status) = 0 /\ Due("mark") = 0
    BY <1>5, <1>10 DEF Open, Due, Owing
  <2>4. Pays(w, "mark")
    BY <1>8, <2>3, Here DEF Pays
  <2> QED
    BY <1>1, <1>7, <1>10, <2>1, <2>4, FreshFine
<1>11. CASE s.res \in {"failed", "conflict"} /\ To(w, "wake")
  <2>1. PICK q : Fresh(q, "wake", 0) /\ worker' = [worker EXCEPT ![w] = q]
    BY <1>11, FreshTo DEF PCs
  <2>3. Open(watch'.status) = 0 /\ Due("wake") = 1
    BY <1>5, <1>11 DEF Open, Due, Owing
  <2>4. Pays(w, "wake")
    BY <1>8, <2>3, Here DEF Pays
  <2> QED
    BY <1>7, <2>1, <2>4, FreshFine
<1>12. CASE To(w, "idle")
  <2>1. PICK q : Fresh(q, "idle", 0) /\ worker' = [worker EXCEPT ![w] = q]
    BY <1>12, FreshTo DEF PCs
  <2>3. Open(watch'.status) \in {0, 1} /\ Due("idle") = 0
    BY DEF Open, Due, Owing
  <2>4. Pays(w, "idle")
    BY <1>8, <2>3, Here DEF Pays
  <2> QED
    BY <1>7, <2>1, <2>4, FreshFine
<1> QED
  BY <1>3, <1>9, <1>10, <1>11, <1>12

\* The reducer follows the head that is pinned, a governed one, or one it has to
\* trust.
LEMMA ApplyFine == ASSUME WatchInv, NEW w \in Workers, Apply(w) PROVE Fine(w)
<1> DEFINE s == worker[w].obs
           moved == HeadMovedOffPin(worker[w].pin, s)
<1>0. World /\ worker[w] \in Routines /\ s \in [head : Heads, res : Verdict]
  BY Here DEF Routines
<1>1. s.head \in Heads /\ s.head \in Pins /\ s.head # 0
  BY <1>0 DEF Heads, Pins
<1>2. worker[w].pc = "apply" /\ UNCHANGED <<pr, ledger, phase, wakes, regs>>
  BY DEF Apply, github
<1>3. Due("idle") = 0 /\ Due(worker[w].pc) >= 0
  BY DEF Due, Owing
<1>4. CASE ~RowIsAsRead(w)
  <2>1. To(w, "idle") /\ Still
    BY <1>0, <1>4 DEF Apply, Still, World, github
  <2>2. PICK q : Fresh(q, "idle", 0) /\ worker' = [worker EXCEPT ![w] = q]
    BY <2>1, FreshTo DEF PCs
  <2> QED
    BY <1>3, <2>1, <2>2, StillFine
<1>5. CASE RowIsAsRead(w) /\ (~moved \/ s.head \in ledger) /\ Observes(w)
           /\ trusted' = (IF worker[w].pin = 0 THEN Trust(s.head) ELSE trusted) /\ faults' = faults
  <2>1. Trust(s.head) \subseteq Heads /\ trusted \cup ledger \subseteq Trust(s.head) \cup ledger
        /\ s.head \in Trust(s.head) \cup ledger
    BY <1>0, <1>1, TrustKept
  <2>2. /\ trusted' \subseteq Heads /\ trusted \cup ledger \subseteq trusted' \cup ledger
    BY <1>0, <1>5, <2>1 DEF World
  <2>3. s.head \in trusted' \cup ledger
    <3>1. CASE worker[w].pin = 0
      BY <1>5, <2>1, <3>1
    <3>2. CASE s.head \in ledger
      BY <3>2
    <3>3. CASE worker[w].pin # 0 /\ ~moved
      <4>1. worker[w].pin = s.head /\ watch.pin = s.head
        BY <1>5, <3>3 DEF HeadMovedOffPin, RowIsAsRead
      <4> QED
        BY <1>0, <1>1, <2>2, <4>1 DEF World
    <3> QED
      BY <1>5, <3>1, <3>2, <3>3
  <2>4. faults' \in 0..MaxFaults
    BY <1>0, <1>5 DEF World
  <2> QED
    BY <1>2, <1>5, <2>2, <2>3, <2>4, ObservesFine
<1>6. CASE RowIsAsRead(w) /\ Fault /\ Observes(w) /\ trusted' = Trust(s.head)
  <2>1. Trust(s.head) \subseteq Heads /\ trusted \cup ledger \subseteq Trust(s.head) \cup ledger
        /\ s.head \in Trust(s.head) \cup ledger
    BY <1>0, <1>1, TrustKept
  <2>2. faults' \in 0..MaxFaults
    BY <1>0, <1>6, FaultTyped
  <2> QED
    BY <1>2, <1>6, <2>1, <2>2, ObservesFine
<1>7. CASE RowIsAsRead(w) /\ watch' = [watch EXCEPT !.status = "superseded"] /\ To(w, "idle")
           /\ UNCHANGED <<timers, trusted, faults>>
  <2>1. PICK q : Fresh(q, "idle", 0) /\ worker' = [worker EXCEPT ![w] = q]
    BY <1>7, FreshTo DEF PCs
  <2>2. watch' \in [status : Status, pin : Pins] /\ watch'.status = "superseded" /\ watch'.pin = watch.pin
    BY <1>0, <1>7 DEF World, Status
  <2>3. World' /\ Onwards
    BY <1>0, <1>2, <1>7, <2>2 DEF World, Onwards, MergedIsMerged
  <2>4. Open(watch'.status) = 0
    BY <2>2 DEF Open
  <2>5. Pays(w, "idle")
    BY <1>2, <1>3, <2>4, Here DEF Pays
  <2> QED
    BY <2>1, <2>3, <2>5, FreshFine
<1>8. \/ ~RowIsAsRead(w)
      \/ RowIsAsRead(w) /\ (~moved \/ s.head \in ledger) /\ Observes(w)
         /\ trusted' = (IF worker[w].pin = 0 THEN Trust(s.head) ELSE trusted) /\ faults' = faults
      \/ RowIsAsRead(w) /\ Fault /\ Observes(w) /\ trusted' = Trust(s.head)
      \/ RowIsAsRead(w) /\ watch' = [watch EXCEPT !.status = "superseded"] /\ To(w, "idle")
         /\ UNCHANGED <<timers, trusted, faults>>
  BY DEF Apply, Observes
<1> QED
  BY <1>4, <1>5, <1>6, <1>7, <1>8

\* Without a phase the wake is dropped.
LEMMA ReadyFine == ASSUME WatchInv, NEW w \in Workers, MarkReady(w) PROVE Fine(w)
<1>0. World /\ worker[w].pc = "green"
  BY Here DEF MarkReady
<1>1. /\ watch' = [watch EXCEPT !.status = "ready"] /\ worker' = [worker EXCEPT ![w] = Idle]
      /\ UNCHANGED <<pr, ledger, phase, timers, wakes, regs, trusted>>
  BY DEF MarkReady, Go, github
<1>2. watch' \in [status : Status, pin : Pins] /\ watch'.status = "ready" /\ watch'.pin = watch.pin
  BY <1>0, <1>1 DEF World, Status
<1>3. faults' \in 0..MaxFaults
  BY <1>0, FaultTyped DEF MarkReady, World
<1>4. World' /\ Onwards
  BY <1>0, <1>1, <1>2, <1>3 DEF World, Onwards, MergedIsMerged
<1>5. Open(watch'.status) = 0 /\ Due("idle") = 0 /\ Due(worker[w].pc) = 1
  BY <1>0, <1>2 DEF Open, Due, Owing
<1>6. Pays(w, "idle")
  BY <1>1, <1>5, Here DEF Pays
<1> QED
  BY <1>1, <1>4, <1>6, FreshIdle, FreshFine

\* The second reading goes on to merge the head of the first.
LEMMA GreenFine == ASSUME WatchInv, NEW w \in Workers, HandleGreen(w) PROVE Fine(w)
<1>0. World /\ pr \in State /\ worker[w] \in Routines /\ worker[w].pc = "green" /\ worker[w].pin \in trusted \cup ledger
  BY Here DEF HandleGreen, RoutineOK, World
<1>1. Due(worker[w].pc) = 1 /\ \A c : Due(c) <= 1
  BY <1>0 DEF Due, Owing
<1>2. Still
  <2>1. faults' = faults \/ Fault
    BY DEF HandleGreen
  <2>2. faults' \in 0..MaxFaults
    BY <1>0, <2>1, FaultTyped DEF World
  <2> QED
    BY <1>0, <2>2 DEF HandleGreen, Still, World, github
<1>3. \/ worker' = [worker EXCEPT ![w] = Idle] \/ To(w, "fail") \/ To(w, "unlatch")
      \/ To(w, "merged") /\ pr.merged
      \/ OnHead(w, "merge", worker[w].pin)
  BY <1>0, MisreadTyped DEF HandleGreen, Go
<1>4. CASE worker' = [worker EXCEPT ![w] = Idle]
  BY <1>1, <1>2, <1>4, FreshIdle, StillFine
<1>5. CASE To(w, "fail") \/ To(w, "unlatch")
  <2>1. PICK c \in {"fail", "unlatch"} : To(w, c)
    BY <1>5
  <2>2. PICK q : Fresh(q, c, 0) /\ worker' = [worker EXCEPT ![w] = q]
    BY <2>1, FreshTo DEF PCs
  <2>3. Due(c) <= Due(worker[w].pc)
    BY <1>1
  <2> QED
    BY <1>2, <2>1, <2>2, <2>3, StillFine
<1>6. CASE To(w, "merged") /\ pr.merged
  <2>1. PICK q : Fresh(q, "merged", 0) /\ worker' = [worker EXCEPT ![w] = q]
    BY <1>6, FreshTo DEF PCs
  <2> QED
    BY <1>1, <1>2, <1>6, <2>1, StillFine
<1>7. CASE OnHead(w, "merge", worker[w].pin)
  <2> DEFINE h == worker[w].pin
             q == [Idle EXCEPT !.pc = "merge", !.pin = h]
  <2>1. h \in Pins /\ h # 0 /\ h \in trusted \cup ledger
    BY <1>0 DEF Routines, World, Heads
  <2>2. worker' = [worker EXCEPT ![w] = q]
    BY <1>7 DEF OnHead, Go
  <2> HIDE DEF h
  <2>3. Fresh(q, "merge", h)
    BY <2>1, FreshOn DEF PCs
  <2> HIDE DEF q
  <2> QED
    BY <1>1, <1>2, <2>1, <2>2, <2>3, StillFine
<1> QED
  BY <1>3, <1>4, <1>5, <1>6, <1>7

\* The merge hands its wake on, or drops it.
LEMMA MergeFine == ASSUME WatchInv, NEW w \in Workers, MergePRWithHead(w) PROVE Fine(w)
<1>0. World /\ worker[w].pc = "merge" /\ pr \in State
  BY Here DEF MergePRWithHead, World
<1>1. /\ UNCHANGED <<ledger, watch, phase, timers, wakes, regs, trusted>>
      /\ pr' = pr \/ pr' = Merged(pr)
  BY DEF MergePRWithHead
<1>2. pr' \in State /\ (pr.merged => pr'.merged)
  BY <1>0, <1>1 DEF Merged, Opened, State
<1>3. faults' \in 0..MaxFaults
  BY <1>0, FaultTyped DEF MergePRWithHead, World
<1>4. World' /\ Onwards
  BY <1>0, <1>1, <1>2, <1>3 DEF World, Onwards, MergedIsMerged
<1>5. \/ To(w, "fail")
      \/ To(w, "merged") /\ pr'.merged
  BY DEF MergePRWithHead, Merged, Opened
<1>6. Due(worker[w].pc) = 1 /\ \A c : Due(c) \in {0, 1}
  BY <1>0 DEF Due, Owing
<1>7. \A c : Pays(w, c)
  BY <1>1, <1>6, Here DEF Pays
<1>8. CASE To(w, "fail")
  <2>1. PICK q : Fresh(q, "fail", 0) /\ worker' = [worker EXCEPT ![w] = q]
    BY <1>8, FreshTo DEF PCs
  <2> QED
    BY <1>4, <1>7, <2>1, FreshFine
<1>9. CASE To(w, "merged") /\ pr'.merged
  <2>1. PICK q : Fresh(q, "merged", 0) /\ worker' = [worker EXCEPT ![w] = q]
    BY <1>9, FreshTo DEF PCs
  <2> QED
    BY <1>4, <1>7, <1>9, <2>1, FreshFine
<1> QED
  BY <1>5, <1>8, <1>9

\* The row, then the phase, say merged once GitHub does.
LEMMA MarkFine == ASSUME WatchInv, NEW w \in Workers, MarkMerged(w) \/ AdvanceOnMerge(w) PROVE Fine(w)
<1>0. World /\ worker[w] \in Routines /\ pr.merged
  BY Here DEF MarkMerged, AdvanceOnMerge, RoutineOK
<1>1. /\ UNCHANGED <<pr, ledger, timers, wakes, regs, trusted>>
      /\ watch' = watch \/ watch' = [watch EXCEPT !.status = "merged"]
      /\ phase' = phase \/ phase' = "merged"
  BY DEF MarkMerged, AdvanceOnMerge, github
<1>2. watch' \in [status : Status, pin : Pins] /\ watch'.status \in {watch.status, "merged"} /\ watch'.pin = watch.pin
  BY <1>0, <1>1 DEF World, Status
<1>3. faults' \in 0..MaxFaults
  BY <1>0, FaultTyped DEF MarkMerged, AdvanceOnMerge, World
<1>4. World' /\ Onwards
  BY <1>0, <1>1, <1>2, <1>3 DEF World, Onwards, MergedIsMerged
<1>5. /\ Due("idle") = 0 /\ Due("advance") = 0 /\ Due(worker[w].pc) \in {0, 1}
      /\ Open("merged") = 0 /\ Open(watch.status) \in {0, 1}
  BY DEF Due, Owing, Open
<1>6. Pays(w, "idle") /\ Pays(w, "advance")
  BY <1>1, <1>2, <1>5, Here DEF Pays
<1>7. CASE worker' = [worker EXCEPT ![w] = Idle]
  BY <1>4, <1>6, <1>7, FreshIdle, FreshFine
<1>8. CASE To(w, "advance")
  <2>1. PICK q : Fresh(q, "advance", 0) /\ worker' = [worker EXCEPT ![w] = q]
    BY <1>8, FreshTo DEF PCs
  <2> QED
    BY <1>0, <1>1, <1>4, <1>6, <2>1, FreshFine
<1> QED
  BY <1>7, <1>8 DEF MarkMerged, AdvanceOnMerge, Go

\* The writes of the row's status without a guard.
LEMMA RowWriteFine ==
  ASSUME WatchInv, NEW w \in Workers, Unlatch(w) \/ AutoMergeFails(w)
  PROVE  Fine(w)
<1>0. World
  BY Here
<1>1. UNCHANGED <<pr, ledger, phase, timers, wakes, regs, trusted, faults>>
  BY DEF Unlatch, AutoMergeFails, github
<1>2. PICK st \in Status \ {"merged"} : watch' = [watch EXCEPT !.status = st]
  BY DEF Unlatch, AutoMergeFails, Status
<1>3. watch' \in [status : Status, pin : Pins] /\ watch'.status = st /\ watch'.pin = watch.pin
  BY <1>0, <1>2 DEF World
<1>4. World' /\ Onwards
  BY <1>0, <1>1, <1>3 DEF World, Onwards, MergedIsMerged
<1>6. CASE Unlatch(w)
  <2>1. worker' = [worker EXCEPT ![w] = Idle] /\ worker[w].pc = "unlatch"
    BY <1>6 DEF Unlatch, Go
  <2>2. /\ Due(worker[w].pc) = 1 /\ Due("idle") = 0
        /\ Open(watch'.status) \in {0, 1} /\ Open(watch.status) \in {0, 1}
    BY <2>1 DEF Open, Due, Owing
  <2>3. Pays(w, "idle")
    BY <1>1, <2>2, Here DEF Pays
  <2> QED
    BY <1>4, <2>1, <2>3, FreshIdle, FreshFine
<1>7. CASE AutoMergeFails(w)
  <2>1. PICK q : Fresh(q, "wake", 0) /\ worker' = [worker EXCEPT ![w] = q]
    BY <1>7, FreshTo DEF PCs, AutoMergeFails
  <2>2. worker[w].pc = "fail" /\ watch' = [watch EXCEPT !.status = "failed"]
    BY <1>7 DEF AutoMergeFails
  <2>3. watch'.status = "failed"
    BY <1>0, <2>2 DEF World
  <2>4. Open(watch'.status) = 0 /\ Due(worker[w].pc) = 1 /\ Due("wake") = 1
    BY <2>2, <2>3 DEF Open, Due, Owing
  <2>5. Pays(w, "wake")
    BY <1>1, <2>4, Here DEF Pays
  <2> QED
    BY <1>4, <2>1, <2>5, FreshFine
<1> QED
  BY <1>6, <1>7

\* A wake that is made is one the goroutine was good for.
LEMMA WakeFine == ASSUME WatchInv, NEW w \in Workers, WakeSessionForCI(w) PROVE Fine(w)
<1>0. World
  BY Here
<1>1. /\ UNCHANGED <<pr, ledger, watch, phase, timers, regs, trusted>>
      /\ worker[w].pc = "wake" /\ worker' = [worker EXCEPT ![w] = Idle]
  BY DEF WakeSessionForCI, Go, github
<1>2. wakes' \in {wakes, wakes + 1} /\ wakes' \in Nat
  BY <1>0 DEF WakeSessionForCI, World
<1>3. faults' \in 0..MaxFaults
  BY <1>0, FaultTyped DEF WakeSessionForCI, World
<1>4. World' /\ Onwards
  BY <1>0, <1>1, <1>2, <1>3 DEF World, Onwards, MergedIsMerged
<1>5. Due(worker[w].pc) = 1 /\ Due("idle") = 0
  BY <1>1 DEF Due, Owing
<1>6. Pays(w, "idle")
  BY <1>1, <1>2, <1>5, Here DEF Pays
<1> QED
  BY <1>1, <1>4, <1>6, FreshIdle, FreshFine

\* What happens on GitHub undoes no merge and no trust.
LEMMA GitHubKeeps ==
  ASSUME WatchInv, Push \/ Checks \/ Mergeability \/ MergeOnGitHub \/ \E h \in Heads : AppendControlAction(h)
  PROVE  WatchInv'
<1>0. World
  BY DEF WatchInv
<1>1. UNCHANGED <<watch, phase, timers, worker, wakes, regs, faults>>
  BY DEF Push, Checks, Mergeability, MergeOnGitHub, AppendControlAction, SetPR
<1>2. pr' \in State /\ (pr.merged => pr'.merged)
  <2>0. pr \in State
    BY <1>0 DEF World
  <2>1. CASE Push
    BY <2>0, <2>1 DEF Push, SetPR, Opened, State, Heads
  <2>2. CASE Checks
    BY <2>0, <2>2 DEF Checks, SetPR, State
  <2>3. CASE Mergeability
    BY <2>0, <2>3 DEF Mergeability, SetPR, State
  <2>4. CASE MergeOnGitHub
    BY <2>0, <2>4 DEF MergeOnGitHub, SetPR, Merged, Opened, State
  <2>5. CASE \E h \in Heads : AppendControlAction(h)
    BY <2>0, <2>5 DEF AppendControlAction
  <2> QED
    BY <2>1, <2>2, <2>3, <2>4, <2>5
<1>3. trusted' \subseteq Heads /\ ledger' \subseteq Heads /\ trusted \cup ledger \subseteq trusted' \cup ledger'
  <2>1. CASE \E h \in Heads : AppendControlAction(h)
    BY <1>0, <2>1 DEF AppendControlAction, World
  <2>2. CASE Push \/ Checks \/ Mergeability \/ MergeOnGitHub
    BY <1>0, <2>2 DEF Push, Checks, Mergeability, MergeOnGitHub, SetPR, World
  <2> QED
    BY <2>1, <2>2
<1>4. World' /\ Onwards
  BY <1>0, <1>1, <1>2, <1>3 DEF World, Onwards, MergedIsMerged
<1> QED
  BY <1>1, <1>4, QuietStep

\* A restart drops what goroutines were good for.
LEMMA RestartKeeps == ASSUME WatchInv, Restart PROVE WatchInv'
<1>0. World
  BY DEF WatchInv
<1>1. /\ UNCHANGED <<pr, ledger, watch, phase, wakes, regs, trusted>>
      /\ timers' = {} /\ worker' = [v \in Workers |-> Idle]
  BY DEF Restart, github
<1>2. World'
  BY <1>0, <1>1, FaultTyped DEF World, MergedIsMerged, Restart
<1>3. worker' \in [Workers -> Routines]
  BY <1>1, FreshFields
<1>4. \A v \in Workers : RoutineOK(worker'[v], pr'.merged, trusted' \cup ledger')
  BY <1>1, FreshFields DEF RoutineOK
<1>5. Debtors' = {}
  BY <1>1, FreshFields DEF Debtors, Owing
<1>6. Cardinality(Debtors') = 0
  BY <1>5, FS_EmptySet
<1>7. Cardinality(Debtors) \in Nat
  BY FS_Subset, FS_CardinalityType DEF Debtors
<1>8. Open(watch.status) + Cardinality(Debtors) + wakes <= regs /\ Open(watch.status) \in {0, 1}
  BY DEF WatchInv, Open
<1>9. Open(watch'.status) + Cardinality(Debtors') + wakes' <= regs'
  BY <1>0, <1>1, <1>6, <1>7, <1>8 DEF World
<1> QED
  BY <1>2, <1>3, <1>4, <1>9 DEF WatchInv

\* The invariant holds before the first registration.
LEMMA WatchStart == Init => WatchInv
<1> SUFFICES ASSUME Init PROVE WatchInv
  OBVIOUS
<1>1. World
  BY DEF Init, World, Opened, State, Heads, Pins, Status, MergedIsMerged
<1>2. worker = [v \in Workers |-> Idle]
  BY DEF Init
<1>3. worker \in [Workers -> Routines] /\ \A v \in Workers : RoutineOK(worker[v], pr.merged, trusted \cup ledger)
  BY <1>2, FreshFields DEF RoutineOK
<1>4. Debtors = {}
  BY <1>2, FreshFields DEF Debtors, Owing
<1>5. Cardinality(Debtors) = 0
  BY <1>4, FS_EmptySet
<1>6. Open(watch.status) = 0 /\ wakes = 0 /\ regs = 0
  BY DEF Init, Open
<1> QED
  BY <1>1, <1>3, <1>5, <1>6 DEF WatchInv

\* Every step keeps it.
LEMMA WatchStep == WatchInv /\ [Next]_vars => WatchInv'
<1> SUFFICES ASSUME WatchInv, [Next]_vars PROVE WatchInv'
  OBVIOUS
<1>1. ASSUME NEW w \in Workers,
             \/ Step(w) \/ Backstop(w) \/ WebhookMerged(w) \/ HumanMerge(w)
             \/ \E h \in Heads, move \in BOOLEAN : Webhook(w, h, move)
             \/ \E h \in timers : RetryFires(w, h)
             \/ \E h \in Pins : RegisterByNumber(w, h)
             \/ \E h \in Heads : ResolveOpen(w, h)
      PROVE  WatchInv'
  <2>1. Fine(w)
    BY <1>1, WakeupsFine, WebhookMergedFine, HumanFine, RegisteringFine, ResolveOpenFine,
       ResolveStateFine,
       ApplyFine, ReadyFine, GreenFine, MergeFine, MarkFine, RowWriteFine, WakeFine DEF Step
  <2> QED
    BY <2>1, FineStep
<1>2. CASE Push \/ Checks \/ Mergeability \/ MergeOnGitHub \/ \E h \in Heads : AppendControlAction(h)
  BY <1>2, GitHubKeeps
<1>3. CASE Restart
  BY <1>3, RestartKeeps
<1>4. CASE UNCHANGED vars
  <2>1. World' /\ Onwards
    BY <1>4 DEF vars, WatchInv, World, Onwards, MergedIsMerged
  <2> QED
    BY <1>4, <2>1, QuietStep DEF vars
<1> QED
  BY <1>1, <1>2, <1>3, <1>4 DEF Next

\* WatchInv holds in every reachable state.
THEOREM WatchInvariant == Spec => []WatchInv
<1> QED
  BY WatchStart, WatchStep, PTL DEF Spec

\* The agent is woken at most once per registration and merged means merged on
\* GitHub, for any number of goroutines, heads, registrations and faults
\* (UpdateObservation, handleGreenCIWatch, MarkMerged).
THEOREM WatchIsSafe == Spec => []WatchSafe
<1>1. WatchInv => WatchSafe
  <2> SUFFICES ASSUME WatchInv PROVE WatchSafe
    OBVIOUS
  <2>1. TypeOK /\ MergedIsMerged
    BY DEF WatchInv, World, TypeOK, Routines, PCs
  <2>2. Cardinality(Debtors) \in Nat
    BY FS_Subset, FS_CardinalityType DEF Debtors
  <2>3. Open(watch.status) + Cardinality(Debtors) + wakes <= regs /\ Open(watch.status) \in {0, 1}
        /\ wakes \in Nat /\ regs \in Nat
    BY DEF WatchInv, Open, World
  <2>4. wakes <= regs
    BY <2>2, <2>3
  <2> QED
    BY <2>1, <2>4 DEF WatchSafe, OneWakePerRegistration
<1> QED
  BY <1>1, WatchInvariant, PTL

\* A step in which the auto-merge takes effect merges the head of its goroutine.
LEMMA MergesOnPin == ASSUME WatchInv, [Next]_vars, AutoMerges PROVE pr.head \in trusted \cup ledger
<1>1. PICK w \in Workers : worker[w].pc = "merge" /\ worker'[w].pc # "merge"
  BY DEF AutoMerges
<1>2. pr' # pr /\ worker' # worker
  BY <1>1 DEF AutoMerges
<1>3. PICK v \in Workers : MergePRWithHead(v) \/ HumanMerge(v) \/ Restart
  BY <1>2
  DEF Next, Step, Push, Checks, Mergeability, MergeOnGitHub, AppendControlAction, SetPR, vars,
     Backstop, WebhookMerged, Webhook, RetryFires, RegisterByNumber, ResolveOpen, RegisterResolved,
     Register, ResolveState, Apply, MarkReady, HandleGreen, Unlatch, MarkMerged, AdvanceOnMerge,
     AutoMergeFails, WakeSessionForCI, github
<1>4. ~Restart
  BY <1>2 DEF Restart, github
<1>5. v = w /\ ~HumanMerge(v)
  BY <1>1, <1>3, <1>4 DEF MergePRWithHead, HumanMerge, To, Go, WatchInv
<1>6. pr.head = worker[v].pin /\ worker[v].pc = "merge"
  BY <1>2, <1>3, <1>4, <1>5 DEF MergePRWithHead
<1> QED
  BY <1>6, Here DEF RoutineOK

\* The auto-merge merges only a head that was registered, that a governed push
\* produced, or that was followed because the ledger could not be read
\* (headMoveIsGoverned, MergePRWithHead).
THEOREM AutoMergeIsPinned == Spec => AutoMergeFollowsPin
<1>1. WatchInv /\ [Next]_vars => [AutoMerges => pr.head \in trusted \cup ledger]_vars
  BY MergesOnPin
<1> QED
  BY <1>1, WatchInvariant, PTL DEF Spec, AutoMergeFollowsPin
=============================================================================
