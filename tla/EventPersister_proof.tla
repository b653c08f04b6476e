------------------------ MODULE EventPersister_proof ------------------------
(***************************************************************************)
(* For any stream, replicas, sessions, batch size and delivery limit: the  *)
(* persister is type correct, never strands a queue, acknowledges only     *)
(* what is visible, and implements the safety part of EventDelivery.       *)
(*                                                                         *)
(* The tables are nested (ledger, projected, shown) and only grow, and     *)
(* each worker and each repair knows how far the events it holds have      *)
(* come; an event is never both stored and terminated because which of the *)
(* two happens depends on what the event is.                               *)
(***************************************************************************)
EXTENDS EventPersister, SequenceTheorems, TLAPS

----------------------------------------------------------------------------
(* The inductive invariant, by the part of the state it is about *)

\* A message waiting for a delivery has one left, only bad events are
\* terminated, and what is acknowledged is visible.
ConsumerInv ==
    /\ ConsumerOK
    /\ \A e \in Event : stream[e] = "ready" => tries[e] < MaxDeliver
    /\ \A e \in Event : stream[e] = "termed" => kind[e] # "ok"
    /\ AckedIsVisible

\* The tables are nested, and hold good events only.
TablesInv ==
    /\ TablesOK
    /\ projected \subseteq ledger /\ shown \subseteq projected
    /\ \A e \in ledger : kind[e] = "ok"

\* What a worker has persisted has come as far as its place in processBatch.
Progress(r, s) ==
    /\ persisted[r][s] \subseteq ledger
    /\ worker[r][s] \in {"wake", "emit", "ack"} => persisted[r][s] \subseteq projected
    /\ worker[r][s] \in {"emit", "ack"} => persisted[r][s] \subseteq shown
    /\ worker[r][s] = "upsert" => batch[r][s] # <<>>

Decoded == {e \in Event : kind[e] # "garbled"}

DispatchInv ==
    /\ DispatchOK
    /\ \A r \in Replica, s \in Session :
        /\ queue[r][s] \in Seq(Decoded) /\ batch[r][s] \in Seq(Decoded)
        /\ Progress(r, s)
    /\ NoStrandedQueue

\* So has the event of a repair.
RepairInv ==
    /\ RepairOK
    /\ \A r \in Replica :
        /\ repair[r][1] \in {"refresh", "wake"} => repair[r][2] \in ledger
        /\ repair[r][1] = "wake" => repair[r][2] \in projected

IndInv == ConsumerInv /\ TablesInv /\ DispatchInv /\ RepairInv

----------------------------------------------------------------------------
(* Lemmas *)

USE DEF IndInv

\* Cutting a batch off a queue.
LEMMA CutBatch ==
    ASSUME NEW S, NEW q \in Seq(S), q # <<>>, NEW n \in 1..Len(q)
    PROVE  /\ SubSeq(q, 1, n) \in Seq(S) /\ SubSeq(q, 1, n) # <<>>
           /\ SubSeq(q, n + 1, Len(q)) \in Seq(S)
<1>1. Len(q) \in Nat /\ \A i \in 1..Len(q) : q[i] \in S
  BY LenProperties, ElementOfSeq
<1>2. SubSeq(q, 1, n) \in Seq(S) /\ Len(SubSeq(q, 1, n)) = n
  BY <1>1, SubSeqProperties
<1>3. SubSeq(q, n + 1, Len(q)) \in Seq(S)
  BY <1>1, SubSeqProperties
<1> QED  BY <1>2, <1>3, EmptySeq

\* A queue of decoded events is a queue of events.
LEMMA DecodedIsEvent ==
    ASSUME NEW q \in Seq(Decoded)
    PROVE  q \in Seq(Event)
<1>1. Len(q) \in Nat /\ q \in [1..Len(q) -> Decoded]
  BY LenProperties
<1>2. q \in [1..Len(q) -> Event]
  BY <1>1 DEF Decoded
<1> QED  BY <1>1, <1>2

\* A step of one session's worker, or an arrival in its queue, keeps the
\* dispatcher's invariant if what that session now holds is in order.
LEMMA SessionStep ==
    ASSUME DispatchInv, kind' = kind,
           ledger \subseteq ledger', projected \subseteq projected', shown \subseteq shown',
           NEW r \in Replica, NEW s \in Session,
           NEW q \in Seq(Decoded), NEW b \in Seq(Decoded),
           NEW w \in {"none", "slot", "loop"} \union Working,
           NEW p \in SUBSET Event, NEW i \in SUBSET Event,
           queue' = [queue EXCEPT ![r][s] = q], batch' = [batch EXCEPT ![r][s] = b],
           worker' = [worker EXCEPT ![r][s] = w],
           persisted' = [persisted EXCEPT ![r][s] = p],
           inserted' = [inserted EXCEPT ![r][s] = i],
           Progress(r, s)', q # <<>> => w # "none"
    PROVE  DispatchInv'
<1>1. q \in Seq(Event) /\ b \in Seq(Event)
  BY DecodedIsEvent
<1>2. DispatchOK'
  BY <1>1 DEF DispatchInv, DispatchOK
<1>3. Decoded' = Decoded
  BY DEF Decoded
<1>4. ASSUME NEW r2 \in Replica, NEW s2 \in Session, ~(r2 = r /\ s2 = s)
      PROVE  /\ queue'[r2][s2] = queue[r2][s2] /\ batch'[r2][s2] = batch[r2][s2]
             /\ worker'[r2][s2] = worker[r2][s2] /\ persisted'[r2][s2] = persisted[r2][s2]
  BY <1>4 DEF DispatchInv, DispatchOK
<1>5. /\ queue'[r][s] = q /\ batch'[r][s] = b /\ worker'[r][s] = w
      /\ persisted'[r][s] = p
  BY DEF DispatchInv, DispatchOK
<1>6. ASSUME NEW r2 \in Replica, NEW s2 \in Session
      PROVE  /\ queue'[r2][s2] \in Seq(Decoded') /\ batch'[r2][s2] \in Seq(Decoded')
             /\ Progress(r2, s2)'
             /\ queue'[r2][s2] # <<>> => worker'[r2][s2] # "none"
  <2>1. CASE r2 = r /\ s2 = s
    BY <1>3, <1>5, <2>1
  <2>2. CASE ~(r2 = r /\ s2 = s)
    BY <1>3, <1>4, <2>2 DEF DispatchInv, NoStrandedQueue, Progress
  <2> QED  BY <2>1, <2>2
<1> QED  BY <1>2, <1>6 DEF DispatchInv, NoStrandedQueue

\* Messages handed back are redelivered only while they have a delivery left.
LEMMA ReturnFacts ==
    ASSUME ConsumerOK, RepairOK, NEW E \in SUBSET Event, Return(E)
    PROVE  /\ stream' \in [Event -> {"ready", "out", "acked", "termed", "exhausted"}]
           /\ advisory' \in [Replica -> SUBSET Event]
           /\ \A e \in Event :
                /\ stream'[e] \in {"acked", "termed"} => stream'[e] = stream[e]
                /\ stream'[e] = "ready" => stream[e] = "ready" \/ tries[e] < MaxDeliver
  BY PersisterAssumption DEF ConsumerOK, RepairOK, Return

----------------------------------------------------------------------------
(* Every step keeps the invariant *)

\* What EventDone leaves behind is in order.
LEMMA EventDoneStep ==
    ASSUME DispatchInv, kind' = kind, queue' = queue,
           ledger \subseteq ledger', UNCHANGED <<projected, shown>>,
           NEW r \in Replica, NEW s \in Session, worker[r][s] = "upsert",
           NEW p \in SUBSET Event, p \subseteq ledger', EventDone(r, s, p),
           NEW i \in SUBSET Event, inserted' = [inserted EXCEPT ![r][s] = i]
    PROVE  DispatchInv'
<1> DEFINE q == queue[r][s]
           b == Tail(batch[r][s])
           w == IF Len(batch[r][s]) > 1 THEN "upsert" ELSE IF p = {} THEN "loop" ELSE "refresh"
<1>1. batch[r][s] \in Seq(Decoded) /\ batch[r][s] # <<>> /\ q \in Seq(Decoded)
  BY DEF DispatchInv, Progress
<1>2. b \in Seq(Decoded) /\ (Len(batch[r][s]) > 1 => b # <<>>)
  <2>1. b \in Seq(Decoded) /\ Len(b) = Len(batch[r][s]) - 1 /\ Len(batch[r][s]) \in Nat
    BY <1>1, HeadTailProperties, LenProperties
  <2>2. Len(<<>>) = 0
    BY EmptySeq
  <2> HIDE DEF b
  <2> QED  BY <2>1, <2>2
<1>3. w \in {"none", "slot", "loop"} \union Working /\ w # "none"
  BY DEF Working
<1>4. /\ batch' = [batch EXCEPT ![r][s] = b] /\ persisted' = [persisted EXCEPT ![r][s] = p]
      /\ worker' = [worker EXCEPT ![r][s] = w] /\ queue' = [queue EXCEPT ![r][s] = q]
  BY DEF EventDone, Step, DispatchInv, DispatchOK
<1>5. Progress(r, s)'
  <2>1. batch'[r][s] = b /\ persisted'[r][s] = p /\ worker'[r][s] = w
    BY <1>4 DEF DispatchInv, DispatchOK
  <2> QED  BY <2>1, <1>2 DEF Progress
<1> HIDE DEF q, b, w
<1> QED  BY <1>1, <1>2, <1>3, <1>4, <1>5, SessionStep

\* enqueue: only decoded events reach a queue, and an arrival finds or starts a worker.
LEMMA EnqueueInv ==
    ASSUME IndInv, NEW r \in Replica, NEW e \in Event, Enqueue(r, e)
    PROVE  IndInv'
<1> USE DEF Enqueue, consumer, tables, report, sideways, dispatch
<1>1. ConsumerInv'
  <2>1. tries[e] < MaxDeliver /\ tries' \in [Event -> 0..MaxDeliver]
    BY PersisterAssumption DEF ConsumerInv, ConsumerOK
  <2>2. /\ stream' \in [Event -> {"ready", "out", "acked", "termed", "exhausted"}]
        /\ stream'[e] = IF kind[e] = "garbled" THEN "termed" ELSE "out"
        /\ \A f \in Event \ {e} : stream'[f] = stream[f] /\ tries'[f] = tries[f]
    BY DEF ConsumerInv, ConsumerOK
  <2> QED  BY <2>1, <2>2 DEF ConsumerInv, ConsumerOK, AckedIsVisible
<1>2. TablesInv'
  BY DEF TablesInv, TablesOK
<1>3. DispatchInv'
  <2>1. CASE kind[e] = "garbled"
    BY <2>1 DEF DispatchInv, DispatchOK, Progress, Decoded, NoStrandedQueue
  <2>2. CASE kind[e] # "garbled"
    <3> DEFINE s == SessionOf[e]
               q == Append(queue[r][s], e)
               w == IF worker[r][s] = "none" THEN "slot" ELSE worker[r][s]
    <3>1. s \in Session /\ e \in Decoded
      BY <2>2, PersisterAssumption DEF Decoded
    <3>2. queue[r][s] \in Seq(Decoded) /\ batch[r][s] \in Seq(Decoded)
      BY <3>1 DEF DispatchInv
    <3>3. q \in Seq(Decoded)
      BY <3>1, <3>2, AppendProperties
    <3>4. w \in {"none", "slot", "loop"} \union Working /\ w # "none"
      BY <3>1 DEF DispatchInv, DispatchOK
    <3>5. /\ queue' = [queue EXCEPT ![r][s] = q] /\ batch' = [batch EXCEPT ![r][s] = batch[r][s]]
          /\ worker' = [worker EXCEPT ![r][s] = w]
          /\ persisted' = [persisted EXCEPT ![r][s] = persisted[r][s]]
          /\ inserted' = [inserted EXCEPT ![r][s] = inserted[r][s]]
      BY <2>2, <3>1 DEF DispatchInv, DispatchOK
    <3>6. Progress(r, s)' /\ persisted[r][s] \in SUBSET Event /\ inserted[r][s] \in SUBSET Event
      BY <2>2, <3>1 DEF DispatchInv, DispatchOK, Progress
    <3>7. UNCHANGED <<kind, ledger, projected, shown>>
      OBVIOUS
    <3> HIDE DEF s, q, w, Enqueue
    <3> QED  BY <3>1, <3>2, <3>3, <3>4, <3>5, <3>6, <3>7, SessionStep
  <2> QED  BY <2>1, <2>2
<1>4. RepairInv'
  BY DEF RepairInv, RepairOK
<1> QED  BY <1>1, <1>2, <1>3, <1>4

\* runWorker obtains its slot.
LEMMA TakeSlotInv ==
    ASSUME IndInv, NEW r \in Replica, NEW s \in Session, TakeSlot(r, s)
    PROVE  IndInv'
<1> USE DEF TakeSlot, Step, consumer, tables, report, sideways, dispatch
<1>1. ConsumerInv'
  BY DEF ConsumerInv, ConsumerOK, AckedIsVisible
<1>2. TablesInv'
  BY DEF TablesInv, TablesOK
<1>3. DispatchInv'
  BY DEF DispatchInv, DispatchOK, Progress, Decoded, NoStrandedQueue, Working
<1>4. RepairInv'
  BY DEF RepairInv, RepairOK
<1> QED  BY <1>1, <1>2, <1>3, <1>4

\* runWorker leaves an empty queue only, or takes a non-empty batch.
LEMMA TakeBatchInv ==
    ASSUME IndInv, NEW r \in Replica, NEW s \in Session, TakeBatch(r, s)
    PROVE  IndInv'
<1> USE DEF TakeBatch, Step, consumer, tables, report, sideways, dispatch
<1>1. ConsumerInv'
  BY DEF ConsumerInv, ConsumerOK, AckedIsVisible
<1>2. TablesInv'
  BY DEF TablesInv, TablesOK
<1>3. DispatchInv'
  <2> DEFINE q == queue[r][s]
             n == IF Len(q) > MaxBatch THEN MaxBatch ELSE Len(q)
  <2>0. /\ q \in Seq(Decoded) /\ batch[r][s] \in Seq(Decoded)
        /\ persisted[r][s] \in SUBSET Event /\ inserted[r][s] \in SUBSET Event
    BY DEF DispatchInv, DispatchOK
  <2>1. CASE q = <<>>
    <3>1. /\ worker' = [worker EXCEPT ![r][s] = "none"]
          /\ UNCHANGED <<queue, batch, persisted, inserted>>
      BY <2>1
    <3> HIDE DEF TakeBatch
    <3>2. DispatchOK'
      BY <3>1 DEF DispatchInv, DispatchOK
    <3>3. NoStrandedQueue'
      BY <2>1, <3>1 DEF DispatchInv, DispatchOK, NoStrandedQueue
    <3>4. UNCHANGED <<kind, ledger, projected, shown>>
      BY DEF TakeBatch
    <3> QED  BY <3>1, <3>2, <3>3, <3>4
                DEF DispatchInv, DispatchOK, Progress, Decoded, NoStrandedQueue, Working
  <2>2. CASE q # <<>>
    <3> DEFINE front == SubSeq(q, 1, n)
               rest  == SubSeq(q, n + 1, Len(q))
    <3>1. n \in 1..Len(q)
      BY <2>0, <2>2, EmptySeq, PersisterAssumption
    <3>2. front \in Seq(Decoded) /\ front # <<>> /\ rest \in Seq(Decoded)
      BY <2>0, <2>2, <3>1, CutBatch
    <3>3. /\ queue' = [queue EXCEPT ![r][s] = rest] /\ batch' = [batch EXCEPT ![r][s] = front]
          /\ worker' = [worker EXCEPT ![r][s] = "upsert"]
      BY <2>2
    <3>4. /\ persisted' = [persisted EXCEPT ![r][s] = persisted[r][s]]
          /\ inserted' = [inserted EXCEPT ![r][s] = inserted[r][s]]
      BY DEF DispatchInv, DispatchOK
    <3>6. UNCHANGED <<kind, ledger, projected, shown>>
      OBVIOUS
    <3> HIDE DEF q, n, front, rest, TakeBatch
    <3>5. Progress(r, s)'
      BY <3>2, <3>3, <3>4, <3>6 DEF DispatchInv, DispatchOK, Progress
    <3> QED  BY <2>0, <3>2, <3>3, <3>4, <3>5, <3>6, SessionStep DEF Working
  <2> QED  BY <2>1, <2>2
<1>4. RepairInv'
  BY DEF RepairInv, RepairOK
<1> QED  BY <1>1, <1>2, <1>3, <1>4

\* An upsert stores good events and terminates rejected ones.
LEMMA UpsertEventInv ==
    ASSUME IndInv, NEW r \in Replica, NEW s \in Session, UpsertEvent(r, s)
    PROVE  IndInv'
<1> USE DEF UpsertEvent, Store, Close, EventDone, Step, consumer, tables, report, sideways, dispatch
<1>0. Head(batch[r][s]) \in Decoded
  <2>1. batch[r][s] \in Seq(Decoded) /\ batch[r][s] # <<>>
    BY DEF DispatchInv, Progress
  <2> QED  BY <2>1, HeadTailProperties
<1>1. ConsumerInv'
  BY <1>0 DEF ConsumerInv, ConsumerOK, AckedIsVisible
<1>2. TablesInv'
  BY <1>0 DEF TablesInv, TablesOK, Decoded, ConsumerInv, ConsumerOK, Kind
<1>3. DispatchInv'
  <2> DEFINE e == Head(batch[r][s])
  <2>0. /\ persisted[r][s] \in SUBSET Event /\ persisted[r][s] \subseteq ledger
        /\ inserted[r][s] \in SUBSET Event
    BY DEF DispatchInv, DispatchOK, Progress
  <2>1. UNCHANGED <<kind, queue, projected, shown>>
    OBVIOUS
  <2>2. CASE kind[e] = "rejected"
    <3>1. /\ EventDone(r, s, persisted[r][s]) /\ ledger' = ledger
          /\ inserted' = [inserted EXCEPT ![r][s] = inserted[r][s]]
      BY <2>2 DEF DispatchInv, DispatchOK
    <3>2. worker[r][s] = "upsert"
      OBVIOUS
    <3> HIDE DEF e, UpsertEvent, EventDone
    <3> QED  BY <2>0, <2>1, <3>1, <3>2, EventDoneStep
  <2>3. CASE kind[e] # "rejected"
    <3>1. /\ EventDone(r, s, persisted[r][s] \union {e}) /\ ledger' = ledger \union {e}
          /\ inserted' = [inserted EXCEPT ![r][s] = inserted[r][s] \union ({e} \ ledger)]
      BY <2>3
    <3>2. worker[r][s] = "upsert"
      OBVIOUS
    <3>3. e \in Event
      BY <1>0 DEF Decoded
    <3> HIDE DEF e, UpsertEvent, EventDone
    <3>4. /\ persisted[r][s] \union {e} \in SUBSET Event
          /\ persisted[r][s] \union {e} \subseteq ledger'
          /\ inserted[r][s] \union ({e} \ ledger) \in SUBSET Event /\ ledger \subseteq ledger'
      BY <2>0, <3>1, <3>3
    <3> QED  BY <2>1, <3>1, <3>2, <3>4, EventDoneStep
  <2> QED  BY <2>2, <2>3
<1>4. RepairInv'
  BY DEF RepairInv, RepairOK
<1> QED  BY <1>1, <1>2, <1>3, <1>4

\* A transient upsert error hands one event back.
LEMMA UpsertFailsInv ==
    ASSUME IndInv, NEW r \in Replica, NEW s \in Session, UpsertFails(r, s)
    PROVE  IndInv'
<1> USE DEF UpsertFails, EventDone, Step, consumer, tables, report, sideways, dispatch
<1>0. {Head(batch[r][s])} \in SUBSET Event
  <2>1. batch[r][s] \in Seq(Decoded) /\ batch[r][s] # <<>>
    BY DEF DispatchInv, Progress
  <2> QED  BY <2>1, HeadTailProperties DEF Decoded
<1>1. ConsumerInv'
  BY <1>0, ReturnFacts DEF ConsumerInv, ConsumerOK, RepairInv, AckedIsVisible
<1>2. TablesInv'
  BY DEF TablesInv, TablesOK
<1>3. DispatchInv'
  <2>1. /\ persisted[r][s] \in SUBSET Event /\ persisted[r][s] \subseteq ledger
        /\ inserted[r][s] \in SUBSET Event
        /\ inserted' = [inserted EXCEPT ![r][s] = inserted[r][s]]
    BY DEF DispatchInv, DispatchOK, Progress
  <2> QED  BY <2>1, EventDoneStep DEF DispatchInv, UpsertFails
<1>4. RepairInv'
  BY <1>0, ReturnFacts DEF ConsumerInv, RepairInv, RepairOK
<1> QED  BY <1>1, <1>2, <1>3, <1>4

\* The refresh projects the persisted events, all of them stored.
LEMMA RefreshInv ==
    ASSUME IndInv, NEW r \in Replica, NEW s \in Session, Refresh(r, s)
    PROVE  IndInv'
<1> USE DEF Refresh, Step, consumer, tables, report, sideways, dispatch
<1>1. ConsumerInv'
  BY DEF ConsumerInv, ConsumerOK, AckedIsVisible
<1>2. TablesInv'
  <2>1. persisted[r][s] \subseteq ledger /\ persisted[r][s] \subseteq Event
    BY DEF DispatchInv, DispatchOK, Progress
  <2> QED  BY <2>1 DEF TablesInv, TablesOK
<1>3. DispatchInv'
  BY DEF DispatchInv, DispatchOK, Progress, Decoded, NoStrandedQueue, Working
<1>4. RepairInv'
  BY DEF RepairInv, RepairOK
<1> QED  BY <1>1, <1>2, <1>3, <1>4

\* The wake shows what is projected.
LEMMA PublishWakeInv ==
    ASSUME IndInv, NEW r \in Replica, NEW s \in Session, PublishWake(r, s)
    PROVE  IndInv'
<1> USE DEF PublishWake, Wake, Step, consumer, tables, report, sideways, dispatch
<1>1. ConsumerInv'
  BY DEF ConsumerInv, ConsumerOK, AckedIsVisible, TablesInv
<1>2. TablesInv'
  BY DEF TablesInv, TablesOK
<1>3. DispatchInv'
  BY DEF DispatchInv, DispatchOK, Progress, Decoded, NoStrandedQueue, Working, TablesInv
<1>4. RepairInv'
  BY DEF RepairInv, RepairOK
<1> QED  BY <1>1, <1>2, <1>3, <1>4

\* A failed refresh or wake hands the batch back.
LEMMA BatchFailsInv ==
    ASSUME IndInv, NEW r \in Replica, NEW s \in Session, BatchFails(r, s)
    PROVE  IndInv'
<1> USE DEF BatchFails, Settle, Step, consumer, tables, report, sideways, dispatch
<1>0. persisted[r][s] \in SUBSET Event
  BY DEF DispatchInv, DispatchOK
<1>1. ConsumerInv'
  BY <1>0, ReturnFacts DEF ConsumerInv, ConsumerOK, RepairInv, AckedIsVisible
<1>2. TablesInv'
  BY DEF TablesInv, TablesOK
<1>3. DispatchInv'
  BY DEF DispatchInv, DispatchOK, Progress, Decoded, NoStrandedQueue, Working
<1>4. RepairInv'
  BY <1>0, ReturnFacts DEF ConsumerInv, RepairInv, RepairOK
<1> QED  BY <1>1, <1>2, <1>3, <1>4

\* The deltas touch neither tables nor consumer.
LEMMA EmitDeltasInv ==
    ASSUME IndInv, NEW r \in Replica, NEW s \in Session, EmitDeltas(r, s)
    PROVE  IndInv'
<1> USE DEF EmitDeltas, Fault, Step, consumer, tables, report, sideways, dispatch
<1>1. ConsumerInv'
  BY PersisterAssumption DEF ConsumerInv, ConsumerOK, AckedIsVisible
<1>2. TablesInv'
  BY DEF TablesInv, TablesOK
<1>3. DispatchInv'
  BY DEF DispatchInv, DispatchOK, Progress, Decoded, NoStrandedQueue, Working
<1>4. RepairInv'
  BY DEF RepairInv, RepairOK
<1> QED  BY <1>1, <1>2, <1>3, <1>4

\* What is acknowledged was shown by the batch's own wake.
LEMMA AckInv ==
    ASSUME IndInv, NEW r \in Replica, NEW s \in Session, Ack(r, s)
    PROVE  IndInv'
<1> USE DEF Ack, Close, Settle, Fault, Step, consumer, tables, report, sideways, dispatch
<1>1. ConsumerInv'
  BY PersisterAssumption DEF ConsumerInv, ConsumerOK, AckedIsVisible, DispatchInv, Progress,
     TablesInv
<1>2. TablesInv'
  BY DEF TablesInv, TablesOK
<1>3. DispatchInv'
  BY DEF DispatchInv, DispatchOK, Progress, Decoded, NoStrandedQueue, Working
<1>4. RepairInv'
  BY DEF RepairInv, RepairOK
<1> QED  BY <1>1, <1>2, <1>3, <1>4

\* A crash empties one replica and leaves the tables.
LEMMA CrashInv ==
    ASSUME IndInv, NEW r \in Replica, Crash(r)
    PROVE  IndInv'
<1> USE DEF Crash, Fault, consumer, tables, report, sideways, dispatch
<1>1. ConsumerInv'
  BY PersisterAssumption DEF ConsumerInv, ConsumerOK, AckedIsVisible
<1>2. TablesInv'
  BY DEF TablesInv, TablesOK
<1>3. DispatchInv'
  <2>1. DispatchOK'
    BY EmptySeq DEF DispatchInv, DispatchOK
  <2>2. Decoded' = Decoded
    BY DEF Decoded
  <2>3. ASSUME NEW r2 \in Replica, NEW s2 \in Session
        PROVE  /\ queue'[r2][s2] \in Seq(Decoded') /\ batch'[r2][s2] \in Seq(Decoded')
               /\ Progress(r2, s2)'
               /\ queue'[r2][s2] # <<>> => worker'[r2][s2] # "none"
    <3>1. CASE r2 = r
      BY <2>2, <3>1, EmptySeq DEF DispatchInv, DispatchOK, Progress
    <3>2. CASE r2 # r
      BY <2>2, <3>2 DEF DispatchInv, DispatchOK, Progress, NoStrandedQueue
    <3> QED  BY <3>1, <3>2
  <2> QED  BY <2>1, <2>3 DEF DispatchInv, NoStrandedQueue
<1>4. RepairInv'
  BY DEF RepairInv, RepairOK, NoRepair
<1> QED  BY <1>1, <1>2, <1>3, <1>4

\* A start reads its window.
LEMMA RestartInv ==
    ASSUME IndInv, NEW r \in Replica, Restart(r)
    PROVE  IndInv'
<1> USE DEF Restart, consumer, tables, report, sideways, dispatch
<1>1. ConsumerInv'
  BY DEF ConsumerInv, ConsumerOK, AckedIsVisible
<1>2. TablesInv'
  BY DEF TablesInv, TablesOK
<1>3. DispatchInv'
  BY DEF DispatchInv, DispatchOK, Progress, Decoded, NoStrandedQueue, Working
<1>4. RepairInv'
  BY DEF RepairInv, RepairOK, Window
<1> QED  BY <1>1, <1>2, <1>3, <1>4

\* The reconciler stores good events only.
LEMMA ReconcileNextInv ==
    ASSUME IndInv, NEW r \in Replica, ReconcileNext(r)
    PROVE  IndInv'
<1> USE DEF ReconcileNext, Store, consumer, tables, report, sideways, dispatch
<1>1. ConsumerInv'
  BY DEF ConsumerInv, ConsumerOK, AckedIsVisible
<1>2. TablesInv'
  BY DEF TablesInv, TablesOK, RepairInv, RepairOK, NoRepair
<1>3. DispatchInv'
  BY DEF DispatchInv, DispatchOK, Progress, Decoded, NoStrandedQueue, Working
<1>4. RepairInv'
  BY DEF RepairInv, RepairOK, NoRepair
<1> QED  BY <1>1, <1>2, <1>3, <1>4

\* A failed visit is reported.
LEMMA ReconcileFailsInv ==
    ASSUME IndInv, NEW r \in Replica, ReconcileFails(r)
    PROVE  IndInv'
<1> USE DEF ReconcileFails, Fault, consumer, tables, report, sideways, dispatch
<1>1. ConsumerInv'
  BY PersisterAssumption DEF ConsumerInv, ConsumerOK, AckedIsVisible
<1>2. TablesInv'
  BY DEF TablesInv, TablesOK, RepairInv, RepairOK, NoRepair
<1>3. DispatchInv'
  BY DEF DispatchInv, DispatchOK, Progress, Decoded, NoStrandedQueue, Working
<1>4. RepairInv'
  BY DEF RepairInv, RepairOK
<1> QED  BY <1>1, <1>2, <1>3, <1>4

\* The reconciler is done.
LEMMA ConsumeInv ==
    ASSUME IndInv, NEW r \in Replica, Consume(r)
    PROVE  IndInv'
<1> USE DEF Consume, consumer, tables, report, sideways, dispatch
<1>1. ConsumerInv'
  BY DEF ConsumerInv, ConsumerOK, AckedIsVisible
<1>2. TablesInv'
  BY DEF TablesInv, TablesOK
<1>3. DispatchInv'
  BY DEF DispatchInv, DispatchOK, Progress, Decoded, NoStrandedQueue, Working
<1>4. RepairInv'
  BY DEF RepairInv, RepairOK
<1> QED  BY <1>1, <1>2, <1>3, <1>4

\* An advisory stores a good event or reports a bad one.
LEMMA HandleAdvisoryInv ==
    ASSUME IndInv, NEW r \in Replica, HandleAdvisory(r)
    PROVE  IndInv'
<1> USE DEF HandleAdvisory, Store, consumer, tables, report, sideways, dispatch
<1>1. ConsumerInv'
  BY DEF ConsumerInv, ConsumerOK, AckedIsVisible
<1>2. TablesInv'
  BY DEF TablesInv, TablesOK, RepairInv, RepairOK, NoRepair
<1>3. DispatchInv'
  BY DEF DispatchInv, DispatchOK, Progress, Decoded, NoStrandedQueue, Working
<1>4. RepairInv'
  BY DEF RepairInv, RepairOK, NoRepair
<1> QED  BY <1>1, <1>2, <1>3, <1>4

\* A repair projects and shows a stored event.
LEMMA RepairStepInv ==
    ASSUME IndInv, NEW r \in Replica, RepairStep(r)
    PROVE  IndInv'
<1> USE DEF RepairStep, Wake, consumer, tables, report, sideways, dispatch
<1>1. ConsumerInv'
  BY DEF ConsumerInv, ConsumerOK, AckedIsVisible, TablesInv
<1>2. TablesInv'
  BY DEF TablesInv, TablesOK, RepairInv, RepairOK, NoRepair
<1>3. DispatchInv'
  BY DEF DispatchInv, DispatchOK, Progress, Decoded, NoStrandedQueue, Working, TablesInv
<1>4. RepairInv'
  BY DEF RepairInv, RepairOK, NoRepair, TablesInv
<1> QED  BY <1>1, <1>2, <1>3, <1>4

\* A failed fetch or upsert is reported.
LEMMA AdvisoryFailsInv ==
    ASSUME IndInv, NEW r \in Replica, AdvisoryFails(r)
    PROVE  IndInv'
<1> USE DEF AdvisoryFails, Fault, consumer, tables, report, sideways, dispatch
<1>1. ConsumerInv'
  BY PersisterAssumption DEF ConsumerInv, ConsumerOK, AckedIsVisible
<1>2. TablesInv'
  BY DEF TablesInv, TablesOK, RepairInv, RepairOK, NoRepair
<1>3. DispatchInv'
  BY DEF DispatchInv, DispatchOK, Progress, Decoded, NoStrandedQueue, Working
<1>4. RepairInv'
  BY DEF RepairInv, RepairOK
<1> QED  BY <1>1, <1>2, <1>3, <1>4

\* A failed refresh or wake ends a repair.
LEMMA RepairFailsInv ==
    ASSUME IndInv, NEW r \in Replica, RepairFails(r)
    PROVE  IndInv'
<1> USE DEF RepairFails, Fault, consumer, tables, report, sideways, dispatch
<1>1. ConsumerInv'
  BY PersisterAssumption DEF ConsumerInv, ConsumerOK, AckedIsVisible
<1>2. TablesInv'
  BY DEF TablesInv, TablesOK, RepairInv, RepairOK, NoRepair
<1>3. DispatchInv'
  BY DEF DispatchInv, DispatchOK, Progress, Decoded, NoStrandedQueue, Working
<1>4. RepairInv'
  BY DEF RepairInv, RepairOK, NoRepair
<1> QED  BY <1>1, <1>2, <1>3, <1>4

\* The ack deadline hands one event back.
LEMMA AckWaitExpiresInv ==
    ASSUME IndInv, NEW e \in Event, AckWaitExpires(e)
    PROVE  IndInv'
<1> USE DEF AckWaitExpires, Fault, consumer, tables, report, sideways, dispatch
<1>1. ConsumerInv'
  BY ReturnFacts, PersisterAssumption DEF ConsumerInv, ConsumerOK, RepairInv, AckedIsVisible
<1>2. TablesInv'
  BY DEF TablesInv, TablesOK
<1>3. DispatchInv'
  BY DEF DispatchInv, DispatchOK, Progress, Decoded, NoStrandedQueue, Working
<1>4. RepairInv'
  BY ReturnFacts DEF ConsumerInv, RepairInv, RepairOK
<1> QED  BY <1>1, <1>2, <1>3, <1>4

\* The invariant holds in the first state.
LEMMA InitIndInv == Init => IndInv
<1> SUFFICES ASSUME Init PROVE IndInv
  OBVIOUS
<1>1. ConsumerInv
  BY PersisterAssumption DEF Init, ConsumerInv, ConsumerOK, AckedIsVisible
<1>2. TablesInv
  BY DEF Init, TablesInv, TablesOK
<1>3. DispatchInv
  BY EmptySeq DEF Init, DispatchInv, DispatchOK, Progress, NoStrandedQueue
<1>4. RepairInv
  BY DEF Init, RepairInv, RepairOK, NoRepair
<1> QED  BY <1>1, <1>2, <1>3, <1>4

\* It survives a stuttering step,
LEMMA StutterIndInv == IndInv /\ UNCHANGED vars => IndInv'
<1> SUFFICES ASSUME IndInv, UNCHANGED vars PROVE IndInv'
  OBVIOUS
<1> USE DEF vars
<1>1. ConsumerInv' /\ TablesInv' /\ RepairInv'
  BY DEF ConsumerInv, ConsumerOK, AckedIsVisible, TablesInv, TablesOK, RepairInv, RepairOK
<1>2. DispatchInv'
  BY DEF DispatchInv, DispatchOK, Progress, Decoded, NoStrandedQueue
<1> QED  BY <1>1, <1>2

\* and every step of the persister, its consumer and its failures.
LEMMA NextIndInv == IndInv /\ [Next]_vars => IndInv'
<1> SUFFICES ASSUME IndInv, [Next]_vars PROVE IndInv'
  OBVIOUS
<1> HIDE DEF IndInv
<1>1. CASE UNCHANGED vars
  BY <1>1, StutterIndInv
<1>2. ASSUME NEW r \in Replica, NEW e \in Event, Enqueue(r, e) PROVE IndInv'
  BY <1>2, EnqueueInv
<1>3. ASSUME NEW r \in Replica, NEW s \in Session,
             WorkerStep(r, s) \/ UpsertFails(r, s) \/ BatchFails(r, s)
      PROVE  IndInv'
  BY <1>3, TakeSlotInv, TakeBatchInv, UpsertEventInv, UpsertFailsInv, RefreshInv, PublishWakeInv,
     BatchFailsInv, EmitDeltasInv, AckInv DEF WorkerStep
<1>4. ASSUME NEW e \in Event, AckWaitExpires(e) PROVE IndInv'
  BY <1>4, AckWaitExpiresInv
<1>5. ASSUME NEW r \in Replica,
             \/ StartStep(r) \/ RepairWork(r)
             \/ Crash(r) \/ ReconcileFails(r) \/ AdvisoryFails(r) \/ RepairFails(r)
      PROVE  IndInv'
  BY <1>5, RestartInv, ReconcileNextInv, ConsumeInv, HandleAdvisoryInv, RepairStepInv, CrashInv,
     ReconcileFailsInv, AdvisoryFailsInv, RepairFailsInv DEF StartStep, RepairWork
<1> QED  BY <1>1, <1>2, <1>3, <1>4, <1>5 DEF Next

\* The nested tables and what each worker and repair knows hold throughout.
THEOREM Invariant == Spec => []IndInv
<1> HIDE DEF IndInv
<1> QED  BY InitIndInv, NextIndInv, PTL DEF Spec

----------------------------------------------------------------------------
(* Every step is one of EventDelivery's *)

\* The tables grew by at most one stage per event and nothing else changed.
LEMMA AdvanceStep ==
    ASSUME TablesInv, TablesInv', ConsumerInv, kind' = kind,
           UNCHANGED <<stream, counted, unrepaired>>,
           ledger \subseteq ledger', projected \subseteq projected', shown \subseteq shown',
           projected' \subseteq ledger, shown' \subseteq projected
    PROVE  [Delivery!Next]_(Delivery!abstract)
<1>1. \A e \in Event : /\ stage[e] \in 0..3 /\ stage'[e] \in 0..3
                       /\ stage'[e] \in {stage[e], stage[e] + 1}
                       /\ stage'[e] # 0 => e \in ledger'
  BY DEF stage, TablesInv
<1>2. stage \in [Event -> 0..3] /\ stage' \in [Event -> 0..3]
  BY DEF stage
<1>3. \A e \in Event : stage'[e] # stage[e] => stream[e] # "termed"
  BY <1>1 DEF TablesInv, ConsumerInv
<1> HIDE DEF stage
<1>4. CASE stage' = stage
  BY <1>4 DEF Delivery!abstract
<1>5. CASE stage' # stage
  BY <1>1, <1>2, <1>3, <1>5 DEF Delivery!Next, Delivery!Advance, Delivery!Stages
<1> QED  BY <1>4, <1>5

\* Some acknowledgements arrived and nothing else changed.
LEMMA AcknowledgeStep ==
    ASSUME ConsumerInv, ConsumerInv', UNCHANGED <<ledger, projected, shown, counted, unrepaired>>,
           \A e \in Event : stream'[e] = "termed" <=> stream[e] = "termed",
           \A e \in Event : stream[e] = "acked" => stream'[e] = "acked"
    PROVE  [Delivery!Next]_(Delivery!abstract)
<1> DEFINE done == {e \in Event : stream[e] = "acked"}
<1>1. stage' = stage /\ {e \in Event : stream[e] = "termed"}' = {e \in Event : stream[e] = "termed"}
  BY DEF stage
<1>2. done \subseteq done' /\ done' \in SUBSET Event
  OBVIOUS
<1>3. \A e \in done' : stage[e] = 3
  BY DEF stage, ConsumerInv, AckedIsVisible
<1> HIDE DEF stage
<1> QED  BY <1>1, <1>2, <1>3 DEF Delivery!Next, Delivery!Acknowledge, Delivery!abstract

\* One bad event was terminated and nothing else changed.
LEMMA RejectStep ==
    ASSUME TablesInv, ConsumerInv, UNCHANGED <<ledger, projected, shown, counted, unrepaired>>,
           NEW e \in Event, kind[e] # "ok",
           stream'[e] \in {stream[e], "termed"}, stream'[e] = "acked" => stream[e] = "acked",
           \A f \in Event \ {e} : stream'[f] = stream[f]
    PROVE  [Delivery!Next]_(Delivery!abstract)
<1>1. stage' = stage /\ stage[e] = 0 /\ stream[e] # "acked"
  BY DEF stage, TablesInv, ConsumerInv, AckedIsVisible
<1>2. {f \in Event : stream[f] = "acked"}' = {f \in Event : stream[f] = "acked"}
  BY <1>1
<1>3. \/ {f \in Event : stream[f] = "termed"}' = {f \in Event : stream[f] = "termed"}
      \/ {f \in Event : stream[f] = "termed"}' = {f \in Event : stream[f] = "termed"} \union {e}
  OBVIOUS
<1> HIDE DEF stage
<1> QED  BY <1>1, <1>2, <1>3 DEF Delivery!Next, Delivery!Reject, Delivery!abstract

\* Failed repairs were reported and nothing else changed.
LEMMA GiveUpStep ==
    ASSUME TablesInv', UNCHANGED <<ledger, projected, shown, stream>>,
           counted \subseteq counted', unrepaired \subseteq unrepaired'
    PROVE  [Delivery!Next]_(Delivery!abstract)
<1>1. stage' = stage
  BY DEF stage
<1>2. (counted \union unrepaired)' \in SUBSET Event
  BY DEF TablesInv, TablesOK
<1> HIDE DEF stage
<1> QED  BY <1>1, <1>2 DEF Delivery!Next, Delivery!GiveUp, Delivery!abstract

\* Action by action, a step of the persister is one of EventDelivery's or none.
LEMMA StepIsDelivery ==
    ASSUME IndInv, IndInv', Next
    PROVE  [Delivery!Next]_(Delivery!abstract)
<1> USE DEF consumer, tables, report
<1>1. ASSUME NEW r \in Replica, NEW e \in Event, Enqueue(r, e)
      PROVE  [Delivery!Next]_(Delivery!abstract)
  <2>1. CASE kind[e] = "garbled"
    BY <1>1, <2>1, RejectStep DEF Enqueue, ConsumerInv, ConsumerOK
  <2>2. CASE kind[e] # "garbled"
    BY <1>1, <2>2, AcknowledgeStep DEF Enqueue, ConsumerInv, ConsumerOK
  <2> QED  BY <2>1, <2>2
<1>2. ASSUME NEW r \in Replica, NEW s \in Session, UpsertEvent(r, s)
      PROVE  [Delivery!Next]_(Delivery!abstract)
  <2>1. batch[r][s] \in Seq(Decoded) /\ batch[r][s] # <<>>
    BY <1>2 DEF DispatchInv, Progress, UpsertEvent
  <2>2. Head(batch[r][s]) \in Event
    BY <2>1, HeadTailProperties DEF Decoded
  <2>3. CASE kind[Head(batch[r][s])] = "rejected"
    BY <1>2, <2>2, <2>3, RejectStep DEF UpsertEvent, Close, ConsumerInv, ConsumerOK
  <2>4. CASE kind[Head(batch[r][s])] # "rejected"
    BY <1>2, <2>2, <2>4, AdvanceStep DEF UpsertEvent, Store, TablesInv
  <2> QED  BY <2>3, <2>4
<1>3. ASSUME NEW r \in Replica, NEW s \in Session, Refresh(r, s) \/ PublishWake(r, s)
      PROVE  [Delivery!Next]_(Delivery!abstract)
  <2>1. persisted[r][s] \subseteq ledger
    BY DEF DispatchInv, Progress
  <2> QED  BY <1>3, <2>1, AdvanceStep DEF Refresh, PublishWake, Wake, TablesInv
<1>4. ASSUME NEW r \in Replica, NEW s \in Session,
             TakeSlot(r, s) \/ TakeBatch(r, s) \/ EmitDeltas(r, s)
      PROVE  [Delivery!Next]_(Delivery!abstract)
  BY <1>4, AcknowledgeStep DEF TakeSlot, TakeBatch, EmitDeltas
<1>5. ASSUME NEW r \in Replica, NEW s \in Session, Ack(r, s)
      PROVE  [Delivery!Next]_(Delivery!abstract)
  BY <1>5, AcknowledgeStep DEF Ack, Close, ConsumerInv, ConsumerOK
<1>6. ASSUME NEW E \in SUBSET Event, Return(E),
             UNCHANGED <<ledger, projected, shown, counted, unrepaired>>
      PROVE  [Delivery!Next]_(Delivery!abstract)
  BY <1>6, AcknowledgeStep DEF Return, ConsumerInv, ConsumerOK
<1>7. ASSUME NEW r \in Replica, NEW s \in Session, UpsertFails(r, s) \/ BatchFails(r, s)
      PROVE  [Delivery!Next]_(Delivery!abstract)
  <2>1. CASE UpsertFails(r, s)
    <3>1. batch[r][s] \in Seq(Decoded) /\ batch[r][s] # <<>>
      BY <2>1 DEF DispatchInv, Progress, UpsertFails
    <3>2. {Head(batch[r][s])} \in SUBSET Event
      BY <3>1, HeadTailProperties DEF Decoded
    <3> QED  BY <2>1, <3>2, <1>6 DEF UpsertFails
  <2>2. CASE BatchFails(r, s)
    BY <2>2, <1>6 DEF BatchFails, DispatchInv, DispatchOK
  <2> QED  BY <1>7, <2>1, <2>2
<1>8. ASSUME NEW e \in Event, AckWaitExpires(e)
      PROVE  [Delivery!Next]_(Delivery!abstract)
  BY <1>8, <1>6 DEF AckWaitExpires
<1>9. ASSUME NEW r \in Replica, Crash(r) \/ Restart(r) \/ Consume(r)
      PROVE  [Delivery!Next]_(Delivery!abstract)
  BY <1>9, AcknowledgeStep DEF Crash, Restart, Consume
<1>10. ASSUME NEW r \in Replica, ReconcileFails(r) \/ AdvisoryFails(r) \/ RepairFails(r)
       PROVE  [Delivery!Next]_(Delivery!abstract)
  BY <1>10, GiveUpStep DEF ReconcileFails, AdvisoryFails, RepairFails
<1>11. ASSUME NEW r \in Replica, ReconcileNext(r)
       PROVE  [Delivery!Next]_(Delivery!abstract)
  <2>1. PICK e \in scan[r] :
          /\ unrepaired' = unrepaired \union (IF kind[e] = "rejected" THEN {e} ELSE {})
          /\ ledger' = ledger \union (IF kind[e] = "ok" THEN {e} ELSE {})
    BY <1>11 DEF ReconcileNext, Store
  <2>2. UNCHANGED <<kind, stream, projected, shown, counted>>
    BY <1>11 DEF ReconcileNext
  <2>3. CASE kind[e] = "ok"
    BY <2>1, <2>2, <2>3, AdvanceStep DEF TablesInv
  <2>4. CASE kind[e] # "ok"
    BY <2>1, <2>2, <2>4, GiveUpStep
  <2> QED  BY <2>3, <2>4
<1>12. ASSUME NEW r \in Replica, HandleAdvisory(r)
       PROVE  [Delivery!Next]_(Delivery!abstract)
  <2>1. PICK e \in advisory[r] :
          IF kind[e] = "ok" THEN Store(e) /\ UNCHANGED counted
          ELSE counted' = counted \union {e} /\ UNCHANGED ledger
    BY <1>12 DEF HandleAdvisory
  <2>2. UNCHANGED <<kind, stream, projected, shown, unrepaired>>
    BY <1>12 DEF HandleAdvisory
  <2>3. CASE kind[e] = "ok"
    BY <2>1, <2>2, <2>3, AdvanceStep DEF TablesInv, Store
  <2>4. CASE kind[e] # "ok"
    BY <2>1, <2>2, <2>4, GiveUpStep
  <2> QED  BY <2>3, <2>4
<1>13. ASSUME NEW r \in Replica, RepairStep(r)
       PROVE  [Delivery!Next]_(Delivery!abstract)
  BY <1>13, AdvanceStep DEF RepairStep, Wake, TablesInv, RepairInv
<1> QED  BY <1>1, <1>2, <1>3, <1>4, <1>5, <1>7, <1>8, <1>9, <1>10, <1>11, <1>12, <1>13
         DEF Next, WorkerStep, StartStep, RepairWork

----------------------------------------------------------------------------
(* Theorems *)

\* Every reachable state is type correct, whatever the stream, the replicas
\* and the bounds: in particular no message is delivered more than MaxDeliver
\* times.
THEOREM TypeCorrect == Spec => []TypeOK
<1>1. IndInv => TypeOK
  BY DEF TypeOK, ConsumerInv, TablesInv, DispatchInv, RepairInv
<1> HIDE DEF IndInv
<1> QED  BY <1>1, Invariant, PTL

\* A session's queue is empty or its worker is alive: runWorker's exit and
\* enqueue never miss each other.
THEOREM QueuesAreServed == Spec => []NoStrandedQueue
<1>1. IndInv => NoStrandedQueue
  BY DEF DispatchInv
<1> HIDE DEF IndInv
<1> QED  BY <1>1, Invariant, PTL

\* The consumer forgets a message only when its event is stored, projected and
\* announced to readers.
THEOREM AcksFollowVisibility == Spec => []AckedIsVisible
<1>1. IndInv => AckedIsVisible
  BY DEF ConsumerInv
<1> HIDE DEF IndInv
<1> QED  BY <1>1, Invariant, PTL

\* The persister keeps its invariants for any stream, replicas, batch and delivery
\* bounds (enqueue, runWorker, processBatch, the advisory and the reconciler).
THEOREM PersisterIsSafe == Spec => []PersisterSafe
<1>1. TypeOK /\ NoStrandedQueue /\ AckedIsVisible => PersisterSafe
  BY DEF PersisterSafe
<1> QED  BY <1>1, TypeCorrect, QueuesAreServed, AcksFollowVisibility, PTL

\* The persister implements the safety part of EventDelivery: events go through
\* the stages in order, are acknowledged at the last one only, and an event is
\* never both stored and refused.
THEOREM ImplementsDelivery == Spec => Delivery!Safety
<1>1. Init => Delivery!Init
  BY DEF Init, Delivery!Init, stage
<1>2. IndInv /\ IndInv' /\ [Next]_vars => [Delivery!Next]_(Delivery!abstract)
  <2>1. UNCHANGED vars => UNCHANGED Delivery!abstract
    BY DEF vars, Delivery!abstract, stage
  <2> HIDE DEF IndInv
  <2> QED  BY <2>1, StepIsDelivery
<1> HIDE DEF IndInv
<1> QED  BY <1>1, <1>2, Invariant, PTL DEF Spec, Delivery!Safety

=============================================================================
