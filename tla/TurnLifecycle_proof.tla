------------------------ MODULE TurnLifecycle_proof ------------------------
(***************************************************************************)
(* Proofs about the life of a turn (TurnLifecycle) and about test          *)
(* provisions (TestProvision), for any constants that satisfy their        *)
(* assumptions.  The two do not share state, so each has its own invariant. *)
(***************************************************************************)
EXTENDS TurnLifecycle, TestProvision, SequenceTheorems, FiniteSetTheorems,
        WellFoundedInduction, TLAPS

-----------------------------------------------------------------------------
(* Turns                                                                   *)

\* A set of numbers that is not empty has a least one.
LEMMA Least ==
  ASSUME NEW T, T \subseteq Nat, T # {}
  PROVE  \E x \in T : \A y \in T : x <= y
<1> DEFINE R == OpToRel(<, Nat)
<1>1. IsWellFoundedOn(R, Nat)
  BY NatLessThanWellFounded
<1>2. \A x, y \in Nat : x < y => <<x, y>> \in R
  BY DEF OpToRel
<1> HIDE DEF R
<1>3. PICK x \in T : \A y \in T : ~(<<y, x>> \in R)
  BY <1>1, WFMin
<1>4. ASSUME NEW y \in T PROVE ~(y < x)
  <2>1. y \in Nat /\ x \in Nat
    OBVIOUS
  <2> QED
    BY <1>2, <1>3, <2>1, Zenon
<1>5. \A y \in T : x <= y
  <2>1. \A y \in T : y \in Nat /\ x \in Nat
    OBVIOUS
  <2> QED
    BY <1>4, <2>1
<1> QED
  BY <1>5

\* The elements of a sequence over S are in S.
LEMMA RangeIn ==
  ASSUME NEW S, NEW s \in Seq(S) PROVE Range(s) \subseteq S
  BY RangeOfSeq

\* The empty sequence has none.
LEMMA RangeOfEmpty == Range(<<>>) = {}
  BY DEF Range

\* Append adds one element, and keeps the head of a sequence that has one.
LEMMA RangeOfAppend ==
  ASSUME NEW S, NEW s \in Seq(S), NEW e \in S
  PROVE  /\ Append(s, e) \in Seq(S) /\ Append(s, e) # <<>>
         /\ Range(Append(s, e)) = Range(s) \cup {e}
         /\ s # <<>> => Head(Append(s, e)) = Head(s)
<1>1. /\ Append(s, e) \in Seq(S) /\ Append(s, e) # <<>> /\ Len(Append(s, e)) = Len(s) + 1
      /\ \A i \in 1..Len(s) : Append(s, e)[i] = s[i]
      /\ Append(s, e)[Len(s) + 1] = e
  BY AppendProperties
<1> DEFINE r == Append(s, e)
<1>2. Len(s) \in Nat /\ Range(s) = {s[i] : i \in 1..Len(s)} /\ Range(r) = {r[i] : i \in 1..Len(r)}
  BY <1>1, RangeEquality, LenProperties
<1> HIDE DEF r
<1>3. /\ Len(r) = Len(s) + 1 /\ \A i \in 1..Len(s) : r[i] = s[i]
      /\ r[Len(s) + 1] = e
  BY <1>1 DEF r
<1>4. Range(r) = Range(s) \cup {e}
  BY <1>2, <1>3
<1>5. s # <<>> => Head(r) = Head(s)
  <2> SUFFICES ASSUME s # <<>> PROVE Head(r) = Head(s)
    OBVIOUS
  <2>1. Len(s) \in Nat \ {0}
    BY EmptySeq
  <2>2. r[1] = s[1]
    BY <1>3, <2>1
  <2> QED
    BY <2>2, <1>1 DEF r
<1> QED
  BY <1>1, <1>4, <1>5 DEF r

\* A sequence has the elements of its tail, and its head.
LEMMA RangeOfTail ==
  ASSUME NEW S, NEW s \in Seq(S), s # <<>>
  PROVE  /\ Head(s) \in S /\ Tail(s) \in Seq(S)
         /\ Range(s) = {Head(s)} \cup Range(Tail(s))
<1> DEFINE r == Tail(s)
<1>1. Head(s) \in S /\ r \in Seq(S) /\ Len(r) = Len(s) - 1 /\ \A i \in 1..Len(r) : r[i] = s[i + 1]
  BY HeadTailProperties
<1>2. Len(s) \in Nat \ {0} /\ Head(s) = s[1]
  BY EmptySeq
<1> HIDE DEF r
<1>3. Range(s) = {s[i] : i \in 1..Len(s)} /\ Range(r) = {r[i] : i \in 1..Len(r)}
  BY <1>1, RangeEquality
<1>4. Range(s) \subseteq {s[1]} \cup Range(r)
  <2> SUFFICES ASSUME NEW i \in 1..Len(s) PROVE s[i] \in {s[1]} \cup Range(r)
    BY <1>3
  <2>1. CASE i = 1
    BY <2>1
  <2>2. CASE i # 1
    <3>1. i - 1 \in 1..Len(r) /\ (i - 1) + 1 = i
      BY <1>1, <1>2, <2>2
    <3>2. r[i - 1] = s[i]
      BY <1>1, <3>1
    <3> QED
      BY <1>3, <3>1, <3>2
  <2> QED
    BY <2>1, <2>2
<1>5. {s[1]} \cup Range(r) \subseteq Range(s)
  BY <1>1, <1>2, <1>3
<1> QED
  BY <1>1, <1>2, <1>4, <1>5 DEF r

\* A sequence of one element.
LEMMA RangeOfOne ==
  ASSUME NEW S, NEW e \in S PROVE <<e>> \in Seq(S) /\ Range(<<e>>) = {e}
  BY DEF Range

\* A sequence of two elements.
LEMMA RangeOfTwo ==
  ASSUME NEW S, NEW e \in S, NEW f \in S
  PROVE <<e>> \o <<f>> \in Seq(S) /\ Range(<<e>> \o <<f>>) = {e, f}
<1>1. <<e>> \in Seq(S) /\ <<f>> \in Seq(S) /\ Range(<<e>>) = {e} /\ Range(<<f>>) = {f}
  BY RangeOfOne
<1> DEFINE a == <<e>>  b == <<f>>
<1> HIDE DEF a, b
<1>2. a \in Seq(S) /\ b \in Seq(S) /\ Range(a) = {e} /\ Range(b) = {f}
  BY <1>1 DEF a, b
<1>3. a \o b \in Seq(S) /\ Range(a \o b) = {e} \cup {f}
  BY <1>2, ConcatProperties, RangeConcatenation
<1>4. a \o b \in Seq(S) /\ Range(a \o b) = {e, f}
  BY <1>3
<1> QED
  BY <1>4 DEF a, b

\* RemoveFirst(s, e) drops no element but e, adds none, and keeps the head unless
\* the head is e.
LEMMA Removed ==
  ASSUME NEW S, NEW s \in Seq(S), NEW e
  PROVE  /\ RemoveFirst(s, e) \in Seq(S)
         /\ Range(RemoveFirst(s, e)) \subseteq Range(s)
         /\ Range(s) \ {e} \subseteq Range(RemoveFirst(s, e))
         /\ s # <<>> /\ Head(s) # e => /\ RemoveFirst(s, e) # <<>>
                                       /\ Head(RemoveFirst(s, e)) = Head(s)
<1> DEFINE I == {i \in 1..Len(s) : s[i] = e}
           r == RemoveFirst(s, e)
<1>0. Len(s) \in Nat /\ DOMAIN s = 1..Len(s) /\ \A i \in 1..Len(s) : s[i] \in S
  BY LenProperties, ElementOfSeq
<1>1. CASE I = {}
  <2>1. ~\E i \in 1..Len(s) : s[i] = e
    BY <1>1
  <2>2. r = s
    BY <2>1 DEF RemoveFirst
  <2> QED
    BY <2>2
<1>2. CASE I # {}
  <2>1. r = RemoveAt(s, Min(I))
    BY <1>2 DEF RemoveFirst, SelectInSeq
  <2>2. I \subseteq Nat
    BY <1>0
  <2>3. \E x \in I : \A y \in I : x <= y
    <3> HIDE DEF I
    <3> QED
      BY <1>2, <2>2, Least
  <2>4. PICK k \in I : k = Min(I)
    BY <2>3 DEF Min
  <2>5. k \in 1..Len(s) /\ s[k] = e
    OBVIOUS
  <2> DEFINE a == SubSeq(s, 1, k - 1)
             b == SubSeq(s, k + 1, Len(s))
  <2>6. r = a \o b
    BY <2>1, <2>4 DEF RemoveAt
  <2> HIDE DEF I
  <2>7. a \in Seq(S) /\ Len(a) = k - 1 /\ \A i \in 1..(k - 1) : a[i] = s[i]
    <3>1. \A i \in 1..(k - 1) : s[i] \in S
      BY <1>0, <2>5
    <3>2. 1 \in Int /\ k - 1 \in Int
      BY <2>5
    <3>3. /\ a \in Seq(S) /\ Len(a) = (IF 1 <= k - 1 THEN (k - 1) - 1 + 1 ELSE 0)
          /\ \A i \in 1..((k - 1) - 1 + 1) : a[i] = s[1 + i - 1]
      BY <3>1, <3>2, SubSeqProperties
    <3> HIDE DEF a
    <3> QED
      BY <2>5, <3>3
  <2>8. b \in Seq(S) /\ Len(b) = Len(s) - k /\ \A i \in 1..(Len(s) - k) : b[i] = s[k + i]
    <3>1. \A i \in (k + 1)..Len(s) : s[i] \in S
      BY <1>0, <2>5
    <3>2. k + 1 \in Int /\ Len(s) \in Int
      BY <1>0, <2>5
    <3>3. /\ b \in Seq(S) /\ Len(b) = (IF k + 1 <= Len(s) THEN Len(s) - (k + 1) + 1 ELSE 0)
          /\ \A i \in 1..(Len(s) - (k + 1) + 1) : b[i] = s[(k + 1) + i - 1]
      BY <3>1, <3>2, SubSeqProperties
    <3> HIDE DEF b
    <3>4. Len(b) = Len(s) - k
      <4>1. CASE k + 1 <= Len(s)
        BY <1>0, <2>5, <3>3, <4>1
      <4>2. CASE ~(k + 1 <= Len(s))
        <5>1. k = Len(s)
          <6>1. k \in Nat /\ k <= Len(s) /\ Len(s) \in Nat
            BY <1>0, <2>5
          <6> QED
            BY <4>2, <6>1
        <5>2. Len(b) = 0
          BY <3>3, <4>2
        <5> QED
          BY <1>0, <5>1, <5>2
      <4> QED
        BY <4>1, <4>2
    <3>5. Len(s) - (k + 1) + 1 = Len(s) - k /\ \A i \in 1..(Len(s) - k) : (k + 1) + i - 1 = k + i
      BY <1>0, <2>5
    <3> QED
      BY <3>3, <3>4, <3>5
  <2> HIDE DEF a, b
  <2>9. r \in Seq(S) /\ Range(r) = Range(a) \cup Range(b) /\ Len(r) = Len(a) + Len(b)
    BY <2>6, <2>7, <2>8, ConcatProperties, RangeConcatenation
  <2>10. /\ Range(s) = {s[i] : i \in 1..Len(s)} /\ Range(a) = {a[i] : i \in 1..Len(a)}
         /\ Range(b) = {b[i] : i \in 1..Len(b)}
    BY <2>7, <2>8, RangeEquality
  <2>11. Range(r) \subseteq Range(s)
    <3>1. Range(a) \subseteq Range(s)
      BY <1>0, <2>5, <2>7, <2>10
    <3>2. Range(b) \subseteq Range(s)
      BY <1>0, <2>5, <2>8, <2>10
    <3> QED
      BY <2>9, <3>1, <3>2
  <2>12. Range(s) \ {e} \subseteq Range(r)
    <3> SUFFICES ASSUME NEW i \in 1..Len(s), s[i] # e PROVE s[i] \in Range(a) \cup Range(b)
      BY <2>9, <2>10
    <3>1. CASE i < k
      BY <1>0, <2>5, <2>7, <2>10, <3>1
    <3>2. CASE i > k
      <4>1. i - k \in 1..Len(b) /\ k + (i - k) = i
        BY <1>0, <2>5, <2>8, <3>2
      <4>2. b[i - k] = s[i]
        BY <2>8, <4>1
      <4> QED
        BY <2>10, <4>1, <4>2
    <3> QED
      BY <1>0, <2>5, <3>1, <3>2
  <2>13. ASSUME s # <<>>, Head(s) # e PROVE r # <<>> /\ Head(r) = Head(s)
    <3>1. Head(s) = s[1] /\ Len(s) \in Nat \ {0}
      BY <2>13, EmptySeq
    <3>2. k > 1 /\ Len(a) \in Nat \ {0} /\ Len(b) \in Nat
      BY <1>0, <2>5, <2>7, <2>8, <2>13, <3>1
    <3>3. r[1] = a[1] /\ a[1] = s[1]
      <4>1. 1 \in 1..(Len(a) + Len(b)) /\ 1 <= Len(a) /\ 1 \in 1..(k - 1)
        BY <2>5, <2>7, <3>2
      <4> QED
        BY <2>6, <2>7, <2>8, <4>1, ConcatProperties
    <3> HIDE DEF r
    <3>4. r # <<>>
      BY <2>9, <3>2, EmptySeq
    <3> QED
      BY <2>9, <3>1, <3>3, <3>4
  <2> QED
    BY <2>9, <2>11, <2>12, <2>13
<1> QED
  BY <1>1, <1>2

-----------------------------------------------------------------------------
\* What the ledger and the wire hold.
Events == Ids \X EventTypes
\* The events of the session, durable or on their way.
Log == ledger \cup Range(wire)
\* The data plane will not deliver the turn again, or will not have it run again.
Spent(t) == deliveries[t] = MaxDeliver \/ TurnClosed(t)
\* The turns the process works on or is about to, without a terminal of its own.
Work == (Owned \ terminalEmitted) \cup ({accepting} \ {None})
\* The turn runs under the id of its answer, or has the answer waiting for it.
Continues(t) == t \in rotated \cup replies \/ <<"reply", Turn(t)>> \in control

\* Types of the state in the memory of the runner.
RunnerTypes ==
  /\ held \in BOOLEAN /\ accepting \in Turns \cup {None}
  /\ pendingTurns \in Seq(Turns) /\ activeTurn \in Turns \cup {None}
  /\ terminalEmitted \subseteq Turns /\ parked \subseteq Turns /\ rotated \subseteq Turns
  /\ pauses \subseteq Turns /\ replies \subseteq Turns /\ interrupts \subseteq Ids
  /\ sdk \in Seq(Turns)

\* Types of the other variables that no queue or log depends on.
OtherTypes ==
  /\ failing \subseteq Turns /\ control \subseteq {"interrupt", "reply"} \X Ids
  /\ attempts \in [Ids -> 0..MaxControlDeliver]
  /\ candidate \in Ids \cup {<<>>} /\ mishaps \in 0..MaxMishaps

\* The type invariant, with the sequences as sequences.
TurnTypes ==
  /\ ledger \subseteq Events /\ wire \in Seq(Events)
  /\ queue \in Seq(Turns) /\ deliveries \in [Turns -> 0..MaxDeliver]
  /\ RunnerTypes /\ OtherTypes

\* Why the turns come one at a time.  max_ack_pending 1 hands out the head of the
\* queue only, and nothing but a terminal or the last delivery removes it: so a
\* turn the process works on is the head, or is spent.
HeadInv == \A t \in Work : Spent(t) \/ IsHead(t)
\* A turn the runner counts as terminated has a terminal that is published.
ClosedInv == \A t \in terminalEmitted : TurnClosed(t)
\* A prompt the provider still has belongs to a turn the runner knows, so that a
\* redelivery of it is reattached.
FedInv == Range(sdk) \subseteq Owned \cup terminalEmitted \cup parked
\* Only the active turn is paused, and never one whose terminal is parked.
PauseInv == pauses \subseteq {activeTurn} \ parked
\* An answer reaches the runner after its boundary is durable.
AnswerInv == \A t \in Turns : Continues(t) => AnswerBoundary(t) \subseteq ledger
\* The inductive invariant.
LifeInv == TurnTypes /\ HeadInv /\ ClosedInv /\ FedInv /\ PauseInv /\ AnswerInv

\* What a step may do with events: they never go away.
LogMoves ==
  /\ ledger' \subseteq Events /\ wire' \in Seq(Events)
  /\ ledger \subseteq ledger' /\ Log \subseteq Log'

\* What a step may do with the queue: what leaves it, and what stops being its
\* head, is closed or has had its last delivery.
QueueMoves ==
  /\ queue' \in Seq(Turns)
  /\ \A t \in Range(queue) \ Range(queue') : TurnClosed(t)' \/ deliveries[t] = MaxDeliver
  /\ \A t \in Turns : IsHead(t) => IsHead(t)' \/ TurnClosed(t)' \/ deliveries[t] = MaxDeliver

\* A turn that has had its last delivery stays so.
CountMoves ==
  /\ deliveries' \in [Turns -> 0..MaxDeliver]
  /\ \A t \in Turns : deliveries[t] = MaxDeliver => deliveries'[t] = MaxDeliver

\* A turn that is new to the process is the head, or closed.
WorkMoves ==
  /\ \A t \in Work' : t \in Work \/ IsHead(t)' \/ TurnClosed(t)'
  /\ \A t \in terminalEmitted' : t \in terminalEmitted \/ TurnClosed(t)'

\* A prompt is fed only for a turn the runner does not own.
FeedMoves == Len(sdk') > Len(sdk) => Last(sdk') \notin Owned

\* A new answer has its boundary in the ledger.
AnswerMoves ==
  \A t \in Turns : Continues(t)' => Continues(t) \/ AnswerBoundary(t) \subseteq ledger'

\* The deliveries of an interrupt are used up: nobody is about to get it again.
Refused(id) == <<"interrupt", id>> \in control /\ attempts[id] = MaxControlDeliver

\* An interrupt that is no longer outstanding has closed its turn, or is refused.
StopMoves == \A id \in Outstanding \ Outstanding' : TurnClosed(id[1])' \/ Refused(id)

\* What a step may do with the state of the runner.
RunnerMoves == RunnerTypes' /\ WorkMoves /\ FedInv' /\ PauseInv' /\ FeedMoves
\* What a step may do with the log, the queue and the other variables.
PlaneMoves == LogMoves /\ QueueMoves /\ CountMoves /\ OtherTypes'
\* The shape that every step has.
TurnMoves == PlaneMoves /\ RunnerMoves /\ AnswerMoves /\ StopMoves

-----------------------------------------------------------------------------
\* The ids of a turn.
LEMMA IdFacts ==
  ASSUME NEW t \in Turns
  PROVE  /\ Turn(t) \in Ids /\ Question(t) \in Ids /\ Answer(t) \in Ids
         /\ CurrentId(t) \in Ids /\ CurrentId(t) \in {Turn(t), Question(t), Answer(t)}
         /\ Turn(t)[1] = t /\ Question(t)[1] = t /\ Answer(t)[1] = t
  BY DEF Turn, Question, Answer, CurrentId, Ids

\* Every id is one of those of its turn.
LEMMA IdForms ==
  ASSUME NEW id \in Ids
  PROVE  id[1] \in Turns /\ id \in {Turn(id[1]), Question(id[1]), Answer(id[1])}
  BY DEF Turn, Question, Answer, Ids

\* Events are pairs of an id and a type.
LEMMA EventIn ==
  ASSUME NEW id \in Ids, NEW type \in EventTypes
  PROVE  <<id, type>> \in Events
  BY DEF Events

\* The types of events.
LEMMA Terminals == TerminalTypes \subseteq EventTypes /\ {"submitted", "interrupt_requested",
                                  "awaiting_input", "input_answered"} \subseteq EventTypes
                   /\ {"completed", "failed", "command_failed", "interrupted"} \subseteq TerminalTypes
  BY DEF TerminalTypes, EventTypes

\* A terminal under any id of the turn closes it.
LEMMA ClosedBy ==
  ASSUME NEW t \in Turns, NEW id \in {Turn(t), Question(t), Answer(t)},
         NEW type \in TerminalTypes, <<id, type>> \in Log'
  PROVE  TurnClosed(t)'
  BY DEF TurnClosed, Published, Log, Turn, Question, Answer

\* What findTurnTerminal finds closes the turn.
LEMMA ClosedByLedger ==
  ASSUME NEW id \in Ids, FindTurnTerminal(id), LogMoves
  PROVE  TurnClosed(id[1])'
<1>1. PICK type \in TerminalTypes : <<id, type>> \in ledger
  BY DEF FindTurnTerminal
<1>2. <<id, type>> \in Log'
  BY <1>1 DEF LogMoves, Log
<1> QED
  BY <1>2, IdForms, ClosedBy

\* A closed turn stays closed.
LEMMA StaysClosed ==
  ASSUME LogMoves, NEW t, TurnClosed(t)
  PROVE  TurnClosed(t)'
  BY DEF TurnClosed, Published, LogMoves, Log, Turn, Question, Answer

\* A write to the ledger loses no event.
LEMMA Stored ==
  ASSUME TurnTypes, NEW E, E \subseteq Events, Store(E), wire' = wire
  PROVE  LogMoves
  BY DEF TurnTypes, Store, LogMoves, Log

\* Nor does a step that writes none.
LEMMA Quiet ==
  ASSUME TurnTypes, ledger' = ledger, wire' = wire
  PROVE  LogMoves
  BY DEF TurnTypes, LogMoves, Log

\* Nor does one that publishes events.
LEMMA PublishedAll ==
  ASSUME TurnTypes, NEW s \in Seq(Events), Publish(s), ledger' = ledger
  PROVE  LogMoves /\ Range(s) \subseteq Log'
<1>1. wire \in Seq(Events) /\ ledger \subseteq Events
  BY DEF TurnTypes
<1>2. wire \o s \in Seq(Events) /\ Range(wire \o s) = Range(wire) \cup Range(s)
  BY <1>1, ConcatProperties, RangeConcatenation
<1>3. wire' = wire \o s
  BY DEF Publish
<1>4. wire' \in Seq(Events) /\ Range(wire') = Range(wire) \cup Range(s)
  BY <1>2, <1>3, Zenon
<1> QED
  BY <1>1, <1>4 DEF LogMoves, Log

\* Nor does one that publishes one.
LEMMA PublishedOne ==
  ASSUME TurnTypes, NEW id \in Ids, NEW type \in EventTypes,
         Publish(<<<<id, type>>>>), ledger' = ledger
  PROVE  LogMoves /\ <<id, type>> \in Log'
<1> DEFINE e == <<id, type>>
<1>1. e \in Events
  BY EventIn
<1> HIDE DEF e
<1>2. <<e>> \in Seq(Events) /\ Range(<<e>>) = {e}
  BY <1>1, RangeOfOne
<1>3. LogMoves /\ Range(<<e>>) \subseteq Log'
  BY <1>2, PublishedAll DEF e
<1> QED
  BY <1>2, <1>3 DEF e

\* A step that publishes a terminal of a turn closes it.
LEMMA PublishedTerminal ==
  ASSUME TurnTypes, NEW t \in Turns, NEW id \in {Turn(t), Question(t), Answer(t)},
         NEW type \in TerminalTypes, Publish(<<<<id, type>>>>), ledger' = ledger
  PROVE  LogMoves /\ TurnClosed(t)'
  BY IdFacts, Terminals, PublishedOne, ClosedBy

\* The queue is as it was.
LEMMA QueueSame ==
  ASSUME TurnTypes, queue' = queue
  PROVE  QueueMoves
  BY DEF TurnTypes, QueueMoves, IsHead

\* A command more leaves the head where it is.
LEMMA QueueLonger ==
  ASSUME TurnTypes, NEW t \in Turns, queue' = Append(queue, t)
  PROVE  QueueMoves
<1>1. queue \in Seq(Turns)
  BY DEF TurnTypes
<1>2. /\ queue' \in Seq(Turns) /\ queue' # <<>> /\ Range(queue') = Range(queue) \cup {t}
      /\ queue # <<>> => Head(queue') = Head(queue)
  BY <1>1, RangeOfAppend
<1> QED
  BY <1>2 DEF QueueMoves, IsHead

\* The ack of a closed turn.
LEMMA QueueSettled ==
  ASSUME TurnTypes, NEW t \in Turns, queue' = Settled(t), TurnClosed(t)'
  PROVE  QueueMoves
<1>1. queue \in Seq(Turns)
  BY DEF TurnTypes
<1>2. /\ queue' \in Seq(Turns) /\ Range(queue) \ {t} \subseteq Range(queue')
      /\ queue # <<>> /\ Head(queue) # t => queue' # <<>> /\ Head(queue') = Head(queue)
  BY <1>1, Removed DEF Settled
<1>3. ASSUME NEW u \in Range(queue) \ Range(queue') PROVE TurnClosed(u)'
  BY <1>2, <1>3
<1>4. ASSUME NEW u \in Turns, IsHead(u) PROVE IsHead(u)' \/ TurnClosed(u)'
  BY <1>2, <1>4 DEF IsHead
<1> QED
  BY <1>2, <1>3, <1>4 DEF QueueMoves

\* The last delivery of the head has lapsed.
LEMMA QueueExhausted ==
  ASSUME TurnTypes, NEW t \in Turns, IsHead(t), deliveries[t] = MaxDeliver, queue' = Tail(queue)
  PROVE  QueueMoves
<1>1. queue \in Seq(Turns) /\ queue # <<>> /\ Head(queue) = t
  BY DEF TurnTypes, IsHead
<1>2. queue' \in Seq(Turns) /\ Range(queue) = {t} \cup Range(queue')
  BY <1>1, RangeOfTail
<1> QED
  BY <1>1, <1>2 DEF QueueMoves, IsHead

\* Nothing is delivered.
LEMMA CountSame ==
  ASSUME TurnTypes, deliveries' = deliveries
  PROVE  CountMoves
  BY DEF TurnTypes, CountMoves

\* The runner's turns, pauses and prompts are as they were.
LEMMA RunnerIdle ==
  ASSUME LifeInv, RunnerTypes',
         UNCHANGED <<accepting, pendingTurns, activeTurn, terminalEmitted, parked, pauses, sdk>>
  PROVE  RunnerMoves
<1>1. Work' = Work /\ Owned' = Owned
  BY DEF Work, Owned
<1>2. FedInv' /\ PauseInv'
  BY <1>1 DEF LifeInv, FedInv, PauseInv
<1>3. Len(sdk) \in Nat
  BY LenProperties DEF LifeInv, TurnTypes, RunnerTypes
<1>4. FeedMoves
  BY <1>3 DEF FeedMoves
<1> QED
  BY <1>1, <1>2, <1>4 DEF RunnerMoves, WorkMoves

\* Nothing is answered.
LEMMA AnswersSame ==
  ASSUME UNCHANGED <<rotated, replies, control>>
  PROVE  AnswerMoves
  BY DEF AnswerMoves, Continues

\* No interrupt is resolved.
LEMMA StopsGrow ==
  ASSUME interrupts \subseteq interrupts', control \subseteq control'
  PROVE  StopMoves
  BY DEF StopMoves, Outstanding

\* A step on the interrupt of one turn that it leaves outstanding, or closes.
LEMMA StopsOne ==
  ASSUME NEW id \in Ids, Outstanding \ {id} \subseteq Outstanding',
         id \in Outstanding' \/ TurnClosed(id[1])'
  PROVE  StopMoves
  BY DEF StopMoves

\* No answer is on the control plane that was not, and none goes on.
LEMMA AnswersKept ==
  ASSUME NEW id, UNCHANGED <<rotated, replies>>, control' \subseteq control \cup {<<"interrupt", id>>}
  PROVE  AnswerMoves
  BY DEF AnswerMoves, Continues

\* A count that is set stays in its bounds.
LEMMA CountSet ==
  ASSUME OtherTypes, NEW id \in Ids, NEW n \in 0..MaxControlDeliver,
         attempts' = [attempts EXCEPT ![id] = n]
  PROVE  attempts' \in [Ids -> 0..MaxControlDeliver]
  BY DEF OtherTypes

\* A delivery is one of those that the budget allows.
LEMMA CountOne ==
  ASSUME OtherTypes, NEW id \in Ids, DeliverInterrupt(id)
  PROVE  /\ attempts[id] + 1 \in 0..MaxControlDeliver
         /\ Counted(id) => attempts' \in [Ids -> 0..MaxControlDeliver]
<1>1. attempts \in [Ids -> 0..MaxControlDeliver] /\ attempts[id] < MaxControlDeliver
  BY DEF OtherTypes, DeliverInterrupt
<1>2. attempts[id] + 1 \in 0..MaxControlDeliver
  BY <1>1, BoundsAssumption
<1> QED
  BY <1>1, <1>2 DEF Counted

\* The bound on mishaps.
LEMMA Mishaps ==
  ASSUME OtherTypes, Mishap
  PROVE  mishaps' \in 0..MaxMishaps
  BY BoundsAssumption DEF OtherTypes, Mishap

-----------------------------------------------------------------------------
\* The types, by name.
LEMMA LifeTypes ==
  ASSUME LifeInv
  PROVE  TurnTypes /\ RunnerTypes /\ OtherTypes
  BY DEF LifeInv, TurnTypes

\* A step outside the runner.
LEMMA RunnerUntouched ==
  ASSUME LifeInv, UNCHANGED runnerVars
  PROVE  RunnerMoves
<1>1. UNCHANGED <<accepting, pendingTurns, activeTurn, terminalEmitted, parked, pauses, sdk>>
  BY DEF runnerVars
<1>2. RunnerTypes'
  BY LifeTypes DEF runnerVars, RunnerTypes
<1> QED
  BY <1>1, <1>2, RunnerIdle

\* enqueueSDKTurn has the shape.
LEMMA EnqueueMoves ==
  ASSUME LifeInv, NEW t \in Turns, Enqueue(t) PROVE TurnMoves
<1>1. TurnTypes /\ OtherTypes
  BY LifeTypes
<1>2. LogMoves
  <2>1. {<<Turn(t), "submitted">>} \subseteq Events
    BY IdFacts, Terminals, EventIn
  <2> QED
    BY <1>1, <2>1, Stored DEF Enqueue
<1>3. QueueMoves
  BY <1>1, QueueSame, QueueLonger DEF Enqueue
<1>4. CountMoves
  BY <1>1, CountSame DEF Enqueue
<1>5. OtherTypes'
  BY <1>1, Mishaps DEF Enqueue, OtherTypes
<1>6. RunnerMoves
  BY RunnerUntouched DEF Enqueue
<1>7. AnswerMoves /\ StopMoves
  BY AnswersSame, StopsGrow DEF Enqueue, runnerVars
<1> QED
  BY <1>2, <1>3, <1>4, <1>5, <1>6, <1>7 DEF TurnMoves, PlaneMoves

\* So has its error arm,
LEMMA EnqueueFailedMoves ==
  ASSUME LifeInv, NEW t \in Turns, EnqueueFailed(t) PROVE TurnMoves
<1>1. TurnTypes /\ OtherTypes
  BY LifeTypes
<1>2. LogMoves
  <2>1. {<<Turn(t), "command_failed">>} \subseteq Events
    BY IdFacts, Terminals, EventIn
  <2> QED
    BY <1>1, <2>1, Stored, Quiet DEF EnqueueFailed
<1>3. QueueMoves /\ CountMoves
  BY <1>1, QueueSame, CountSame DEF EnqueueFailed, planes
<1>4. OtherTypes'
  BY <1>1, Mishaps DEF EnqueueFailed, OtherTypes, planes
<1>5. RunnerMoves
  BY RunnerUntouched DEF EnqueueFailed
<1>6. AnswerMoves /\ StopMoves
  BY AnswersSame, StopsGrow DEF EnqueueFailed, runnerVars, planes
<1> QED
  BY <1>2, <1>3, <1>4, <1>5, <1>6 DEF TurnMoves, PlaneMoves

\* the interrupt handler,
LEMMA InterruptMoves ==
  ASSUME LifeInv, NEW id \in Ids, Interrupt(id) PROVE TurnMoves
<1>1. TurnTypes /\ OtherTypes
  BY LifeTypes
<1>2. LogMoves
  <2>1. {<<id, "interrupt_requested">>} \subseteq Events
    BY Terminals, EventIn
  <2> QED
    BY <1>1, <2>1, Stored DEF Interrupt
<1>3. QueueMoves /\ CountMoves
  BY <1>1, QueueSame, CountSame DEF Interrupt
<1>4. control \subseteq control' /\ control' \subseteq control \cup {<<"interrupt", id>>}
  BY DEF Interrupt
<1>5. OtherTypes'
  <2>1. attempts' \in [Ids -> 0..MaxControlDeliver]
    <3>1. 0 \in 0..MaxControlDeliver
      BY BoundsAssumption
    <3> QED
      BY <1>1, <3>1, CountSet DEF Interrupt, OtherTypes
  <2>2. mishaps' \in 0..MaxMishaps
    BY <1>1, Mishaps DEF Interrupt
  <2> QED
    BY <1>1, <1>4, <2>1, <2>2 DEF Interrupt, OtherTypes
<1>6. RunnerMoves
  BY RunnerUntouched DEF Interrupt
<1>7. StopMoves
  BY <1>4, StopsGrow DEF Interrupt, runnerVars
<1>8. AnswerMoves
  BY <1>4 DEF Interrupt, runnerVars, AnswerMoves, Continues
<1> QED
  BY <1>2, <1>3, <1>5, <1>6, <1>7, <1>8 DEF TurnMoves, PlaneMoves

\* the answer handler,
LEMMA AnswerQuestionMoves ==
  ASSUME LifeInv, NEW t \in Turns, AnswerQuestion(t) PROVE TurnMoves
<1>1. TurnTypes /\ OtherTypes
  BY LifeTypes
<1>2. LogMoves /\ AnswerBoundary(t) \subseteq ledger'
  <2> DEFINE E == AnswerBoundary(t)
             F == AnswerBoundary(t) \cup {<<Question(t), "command_failed">>}
  <2>1. E \subseteq Events /\ F \subseteq Events
    BY IdFacts, Terminals, EventIn DEF AnswerBoundary
  <2>2. (Store(E) \/ Store(F)) /\ wire' = wire
    BY DEF AnswerQuestion
  <2>3. E \subseteq F
    OBVIOUS
  <2> HIDE DEF E, F
  <2>4. LogMoves
    BY <1>1, <2>1, <2>2, Stored
  <2>5. E \subseteq ledger'
    BY <2>2, <2>3 DEF Store
  <2> QED
    BY <2>4, <2>5 DEF E
<1>3. QueueMoves /\ CountMoves
  BY <1>1, QueueSame, CountSame DEF AnswerQuestion
<1>4. control \subseteq control' /\ control' \subseteq control \cup {<<"reply", Turn(t)>>}
  BY DEF AnswerQuestion
<1>5. OtherTypes'
  <2>1. control' \subseteq {"interrupt", "reply"} \X Ids
    BY <1>1, <1>4, IdFacts DEF OtherTypes
  <2>2. mishaps' \in 0..MaxMishaps
    BY <1>1, Mishaps DEF AnswerQuestion, OtherTypes
  <2> QED
    BY <1>1, <2>1, <2>2 DEF AnswerQuestion, OtherTypes
<1>6. RunnerMoves
  BY RunnerUntouched DEF AnswerQuestion
<1>7. StopMoves
  BY <1>4, StopsGrow DEF AnswerQuestion, runnerVars
<1>8. AnswerMoves
  <2> SUFFICES ASSUME NEW u \in Turns, Continues(u)', u # t PROVE Continues(u)
    BY <1>2 DEF AnswerMoves
  <2> QED
    BY <1>4 DEF AnswerQuestion, runnerVars, Continues, Turn
<1> QED
  BY <1>2, <1>3, <1>5, <1>6, <1>7, <1>8 DEF TurnMoves, PlaneMoves

\* the persister,
LEMMA PersistMoves ==
  ASSUME LifeInv, Persist PROVE TurnMoves
<1>1. TurnTypes /\ OtherTypes
  BY LifeTypes
<1>2. LogMoves
  <2>1. wire \in Seq(Events) /\ wire # <<>> /\ ledger \subseteq Events
    BY <1>1 DEF TurnTypes, Persist
  <2>2. Head(wire) \in Events /\ Tail(wire) \in Seq(Events) /\ Range(wire) = {Head(wire)} \cup Range(Tail(wire))
    BY <2>1, RangeOfTail
  <2>3. ledger' = ledger \cup {Head(wire)} /\ wire' = Tail(wire)
    BY DEF Persist, Store
  <2> QED
    BY <2>1, <2>2, <2>3 DEF LogMoves, Log
<1>3. QueueMoves /\ CountMoves
  BY <1>1, QueueSame, CountSame DEF Persist, planes
<1>4. OtherTypes'
  BY <1>1 DEF Persist, planes, OtherTypes
<1>5. RunnerMoves
  BY RunnerUntouched DEF Persist
<1>6. AnswerMoves /\ StopMoves
  BY AnswersSame, StopsGrow DEF Persist, runnerVars, planes
<1> QED
  BY <1>2, <1>3, <1>4, <1>5, <1>6 DEF TurnMoves, PlaneMoves

\* a lapsed ack_wait,
LEMMA LapseMoves ==
  ASSUME LifeInv, Lapse PROVE TurnMoves
<1>1. TurnTypes /\ OtherTypes /\ RunnerTypes
  BY LifeTypes
<1>2. LogMoves
  BY <1>1, Quiet DEF Lapse, ledgerVars
<1>3. QueueMoves /\ CountMoves
  BY <1>1, QueueSame, CountSame DEF Lapse, planes
<1>4. OtherTypes'
  BY <1>1, Mishaps DEF Lapse, planes, OtherTypes
<1>5. RunnerMoves
  <2>1. RunnerTypes'
    BY <1>1 DEF RunnerTypes, Lapse
  <2> QED
    BY <2>1, RunnerIdle DEF Lapse
<1>6. AnswerMoves /\ StopMoves
  BY AnswersSame, StopsGrow DEF Lapse, planes
<1> QED
  BY <1>2, <1>3, <1>4, <1>5, <1>6 DEF TurnMoves, PlaneMoves

\* the last delivery,
LEMMA ExhaustMoves ==
  ASSUME LifeInv, NEW t \in Turns, Exhaust(t) PROVE TurnMoves
<1>1. TurnTypes /\ OtherTypes
  BY LifeTypes
<1>2. LogMoves
  BY <1>1, Quiet DEF Exhaust, ledgerVars
<1>3. QueueMoves /\ CountMoves
  BY <1>1, QueueExhausted, CountSame DEF Exhaust
<1>4. OtherTypes'
  BY <1>1 DEF Exhaust, OtherTypes
<1>5. RunnerMoves
  BY RunnerUntouched DEF Exhaust
<1>6. AnswerMoves /\ StopMoves
  BY AnswersSame, StopsGrow DEF Exhaust, runnerVars
<1> QED
  BY <1>2, <1>3, <1>4, <1>5, <1>6 DEF TurnMoves, PlaneMoves

\* the sweep,
LEMMA SweepMoves ==
  ASSUME LifeInv, SweepFail \/ \E id \in Ids : SweepRead(id) PROVE TurnMoves
<1>1. TurnTypes /\ OtherTypes
  BY LifeTypes
<1>2. LogMoves
  <2>1. CASE SweepFail
    <3>1. {<<candidate, "command_failed">>} \subseteq Events
      BY <1>1, <2>1, Terminals, EventIn DEF OtherTypes, SweepFail
    <3> QED
      BY <1>1, <2>1, <3>1, Stored DEF SweepFail
  <2>2. CASE \E id \in Ids : SweepRead(id)
    BY <1>1, <2>2, Quiet DEF SweepRead, ledgerVars
  <2> QED
    BY <2>1, <2>2
<1>3. QueueMoves /\ CountMoves
  BY <1>1, QueueSame, CountSame DEF SweepFail, SweepRead, planes
<1>4. OtherTypes'
  BY <1>1 DEF SweepFail, SweepRead, OtherTypes, planes
<1>5. RunnerMoves
  BY RunnerUntouched DEF SweepFail, SweepRead
<1>6. AnswerMoves /\ StopMoves
  BY AnswersSame, StopsGrow DEF SweepFail, SweepRead, runnerVars, planes
<1> QED
  BY <1>2, <1>3, <1>4, <1>5, <1>6 DEF TurnMoves, PlaneMoves

\* bufferInterrupt,
LEMMA BufferInterruptMoves ==
  ASSUME LifeInv, NEW id \in Ids, BufferInterrupt(id) PROVE TurnMoves
<1>1. TurnTypes /\ OtherTypes /\ RunnerTypes
  BY LifeTypes
<1>2. LogMoves
  BY <1>1, Quiet DEF BufferInterrupt, ledgerVars
<1>3. QueueMoves /\ CountMoves
  BY <1>1, QueueSame, CountSame DEF BufferInterrupt
<1>4. OtherTypes'
  <2>1. attempts' \in [Ids -> 0..MaxControlDeliver]
    BY <1>1, CountOne DEF BufferInterrupt
  <2> QED
    BY <1>1, <2>1 DEF BufferInterrupt, Taken, OtherTypes
<1>5. RunnerMoves
  <2>1. RunnerTypes'
    BY <1>1 DEF RunnerTypes, BufferInterrupt
  <2> QED
    BY <2>1, RunnerIdle DEF BufferInterrupt
<1>6. AnswerMoves
  BY DEF BufferInterrupt, Taken, AnswerMoves, Continues
<1>7. StopMoves
  BY DEF BufferInterrupt, Taken, StopMoves, Outstanding
<1> QED
  BY <1>2, <1>3, <1>4, <1>5, <1>6, <1>7 DEF TurnMoves, PlaneMoves

\* a delivery that no handler sees,
LEMMA LoseInterruptMoves ==
  ASSUME LifeInv, NEW id \in Ids, LoseInterrupt(id) PROVE TurnMoves
<1>1. TurnTypes /\ OtherTypes
  BY LifeTypes
<1>2. LogMoves
  BY <1>1, Quiet DEF LoseInterrupt, ledgerVars
<1>3. QueueMoves /\ CountMoves
  BY <1>1, QueueSame, CountSame DEF LoseInterrupt
<1>4. OtherTypes'
  <2>1. attempts' \in [Ids -> 0..MaxControlDeliver]
    BY <1>1, CountOne DEF LoseInterrupt
  <2> QED
    BY <1>1, <2>1 DEF LoseInterrupt, OtherTypes
<1>5. RunnerMoves
  BY RunnerUntouched DEF LoseInterrupt
<1>6. AnswerMoves /\ StopMoves
  BY AnswersSame, StopsGrow DEF LoseInterrupt, runnerVars
<1> QED
  BY <1>2, <1>3, <1>4, <1>5, <1>6 DEF TurnMoves, PlaneMoves

\* the refusal of an interrupt whose deliveries are used up,
LEMMA ExhaustInterruptMoves ==
  ASSUME LifeInv, NEW id \in Ids, ExhaustInterrupt(id) PROVE TurnMoves
<1>1. TurnTypes /\ OtherTypes
  BY LifeTypes
<1>2. LogMoves
  BY <1>1, Quiet DEF ExhaustInterrupt, ledgerVars
<1>3. QueueMoves /\ CountMoves
  BY <1>1, QueueSame, CountSame DEF ExhaustInterrupt
<1>4. OtherTypes'
  <2>1. attempts' \in [Ids -> 0..MaxControlDeliver]
    <3>1. 0 \in 0..MaxControlDeliver
      BY BoundsAssumption
    <3> QED
      BY <1>1, <3>1, CountSet DEF ExhaustInterrupt
  <2> QED
    BY <1>1, <2>1 DEF ExhaustInterrupt, Taken, OtherTypes
<1>5. RunnerMoves
  BY RunnerUntouched DEF ExhaustInterrupt
<1>6. AnswerMoves
  BY DEF ExhaustInterrupt, Taken, runnerVars, AnswerMoves, Continues
<1>7. StopMoves
  <2> SUFFICES ASSUME NEW j \in Outstanding \ Outstanding' PROVE j = id
    BY DEF StopMoves, Refused, ExhaustInterrupt
  <2> QED
    BY DEF ExhaustInterrupt, Taken, runnerVars, Outstanding
<1> QED
  BY <1>2, <1>3, <1>4, <1>5, <1>6, <1>7 DEF TurnMoves, PlaneMoves

\* expireBufferedInterrupt,
LEMMA ExpireInterruptMoves ==
  ASSUME LifeInv, NEW id \in Ids, ExpireInterrupt(id) PROVE TurnMoves
<1>1. TurnTypes /\ OtherTypes /\ RunnerTypes
  BY LifeTypes
<1>2. /\ ledger' = ledger /\ control \subseteq control' /\ interrupts' = interrupts \ {id}
      /\ control' \subseteq control \cup {<<"interrupt", id>>}
      /\ UNCHANGED <<failing, queue, deliveries, held, accepting, pendingTurns, activeTurn,
                     terminalEmitted, parked, rotated, pauses, replies, sdk, candidate>>
  BY DEF ExpireInterrupt
<1>3. LogMoves /\ (TurnClosed(id[1])' \/ <<"interrupt", id>> \in control')
  <2>1. CASE wire' = wire /\ <<"interrupt", id>> \in control'
    BY <1>1, <1>2, <2>1, Quiet
  <2>2. CASE wire' = wire /\ FindTurnTerminal(id)
    <3>1. LogMoves
      BY <1>1, <1>2, <2>2, Quiet
    <3> QED
      BY <2>2, <3>1, ClosedByLedger
  <2>3. CASE Publish(<<<<id, "failed">>>>)
    <3>1. "failed" \in TerminalTypes
      BY Terminals
    <3> QED
      BY <1>1, <1>2, <2>3, <3>1, IdForms, PublishedTerminal
  <2> QED
    BY <2>1, <2>2, <2>3 DEF ExpireInterrupt
<1>4. QueueMoves /\ CountMoves
  BY <1>1, <1>2, QueueSame, CountSame
<1>5. OtherTypes'
  <2>1. attempts' \in [Ids -> 0..MaxControlDeliver]
    <3>1. 0 \in 0..MaxControlDeliver
      BY BoundsAssumption
    <3>2. attempts' = [attempts EXCEPT ![id] = 0] \/ attempts' = attempts
      BY DEF ExpireInterrupt
    <3> QED
      BY <1>1, <3>1, <3>2, CountSet DEF OtherTypes
  <2>2. mishaps' \in 0..MaxMishaps
    BY <1>1, Mishaps DEF ExpireInterrupt, OtherTypes
  <2> QED
    BY <1>1, <1>2, <2>1, <2>2 DEF OtherTypes
<1>6. RunnerMoves
  <2>1. RunnerTypes'
    BY <1>1, <1>2 DEF RunnerTypes
  <2> QED
    BY <1>2, <2>1, RunnerIdle
<1>7. AnswerMoves
  BY <1>2, AnswersKept
<1>8. StopMoves
  <2>1. Outstanding \ {id} \subseteq Outstanding'
    BY <1>2 DEF Outstanding
  <2>2. <<"interrupt", id>> \in control' => id \in Outstanding'
    BY DEF Outstanding
  <2> QED
    BY <1>3, <2>1, <2>2, StopsOne
<1> QED
  BY <1>3, <1>4, <1>5, <1>6, <1>7, <1>8 DEF TurnMoves, PlaneMoves

\* expireParkedInputReply,
LEMMA ExpireReplyMoves ==
  ASSUME LifeInv, NEW t \in Turns, ExpireReply(t) PROVE TurnMoves
<1>1. TurnTypes /\ OtherTypes /\ RunnerTypes
  BY LifeTypes
<1>2. LogMoves
  BY <1>1, Quiet DEF ExpireReply, ledgerVars
<1>3. QueueMoves /\ CountMoves
  BY <1>1, QueueSame, CountSame DEF ExpireReply
<1>4. control \subseteq control' /\ control' \subseteq control \cup {<<"reply", Turn(t)>>}
  BY DEF ExpireReply
<1>5. OtherTypes'
  <2>1. control' \subseteq {"interrupt", "reply"} \X Ids
    BY <1>1, <1>4, IdFacts DEF OtherTypes
  <2> QED
    BY <1>1, <2>1 DEF ExpireReply, OtherTypes
<1>6. RunnerMoves
  <2>1. RunnerTypes'
    BY <1>1 DEF RunnerTypes, ExpireReply
  <2> QED
    BY <2>1, RunnerIdle DEF ExpireReply
<1>7. AnswerMoves
  <2> SUFFICES ASSUME NEW u \in Turns, Continues(u)' PROVE Continues(u)
    BY DEF AnswerMoves
  <2> QED
    BY <1>4 DEF ExpireReply, Continues, Turn
<1>8. StopMoves
  BY <1>4, StopsGrow DEF ExpireReply
<1> QED
  BY <1>2, <1>3, <1>5, <1>6, <1>7, <1>8 DEF TurnMoves, PlaneMoves

\* A paused turn is the active turn.
LEMMA PausedIsOwned ==
  ASSUME LifeInv, NEW t \in pauses
  PROVE  activeTurn = t /\ t \in Turns /\ t # None /\ t \notin parked
  BY TurnsAssumption DEF LifeInv, TurnTypes, RunnerTypes, PauseInv

\* acceptInputReply,
LEMMA InputReplyMoves ==
  ASSUME LifeInv, NEW t \in Turns, InputReply(t) PROVE TurnMoves
<1>1. TurnTypes /\ OtherTypes /\ RunnerTypes
  BY LifeTypes
<1>2. LogMoves
  BY <1>1, Quiet DEF InputReply, ledgerVars
<1>3. QueueMoves /\ CountMoves
  BY <1>1, QueueSame, CountSame DEF InputReply
<1>4. OtherTypes'
  BY <1>1 DEF InputReply, OtherTypes
<1>5. pauses' = pauses \/ pauses' = pauses \ {t}
  BY DEF InputReply, Rotate
<1>6. UNCHANGED <<accepting, pendingTurns, activeTurn, terminalEmitted, parked, sdk>>
  BY DEF InputReply
<1>7. RunnerMoves
  <2>1. RunnerTypes'
    BY <1>1 DEF RunnerTypes, InputReply, Rotate
  <2>2. Owned' = Owned
    BY <1>5, <1>6, PausedIsOwned DEF Owned
  <2>3. Work' = Work
    BY <1>6, <2>2 DEF Work
  <2>4. FedInv' /\ PauseInv'
    BY <1>5, <1>6, <2>2 DEF LifeInv, FedInv, PauseInv
  <2>5. Len(sdk) \in Nat
    BY <1>1, LenProperties DEF RunnerTypes
  <2>6. FeedMoves
    BY <1>6, <2>5 DEF FeedMoves
  <2> QED
    BY <1>6, <2>1, <2>3, <2>4, <2>6 DEF RunnerMoves, WorkMoves
<1>8. AnswerMoves
  <2> SUFFICES ASSUME NEW u \in Turns, Continues(u)' PROVE Continues(u)
    BY DEF AnswerMoves
  <2> QED
    BY DEF InputReply, Rotate, Continues
<1>9. StopMoves
  BY DEF InputReply, StopMoves, Outstanding
<1> QED
  BY <1>2, <1>3, <1>4, <1>7, <1>8, <1>9 DEF TurnMoves, PlaneMoves

\* ensureActiveTurn,
LEMMA FirstFrameMoves ==
  ASSUME LifeInv, FirstFrame PROVE TurnMoves
<1>1. TurnTypes /\ OtherTypes /\ RunnerTypes
  BY LifeTypes
<1>2. LogMoves
  BY <1>1, Quiet DEF FirstFrame, ledgerVars
<1>3. QueueMoves /\ CountMoves
  BY <1>1, QueueSame, CountSame DEF FirstFrame, planes
<1>4. OtherTypes'
  BY <1>1 DEF FirstFrame, OtherTypes, planes
<1>5. RunnerMoves
  <2>1. pendingTurns \in Seq(Turns) /\ pendingTurns # <<>> /\ activeTurn = None /\ pauses' = pauses
    BY <1>1 DEF RunnerTypes, FirstFrame
  <2>2. /\ activeTurn' \in Turns /\ pendingTurns' \in Seq(Turns)
        /\ Range(pendingTurns) = {activeTurn'} \cup Range(pendingTurns')
    BY <2>1, RangeOfTail DEF FirstFrame
  <2>3. pauses = {} /\ activeTurn' # None
    BY <2>1, <2>2, PausedIsOwned, TurnsAssumption
  <2>4. Owned' = Owned
    BY <2>1, <2>2, <2>3 DEF Owned
  <2>5. UNCHANGED <<accepting, terminalEmitted, parked, sdk>>
    BY DEF FirstFrame
  <2>6. RunnerTypes'
    BY <1>1, <2>2 DEF RunnerTypes, FirstFrame
  <2>7. Work' = Work
    BY <2>4, <2>5 DEF Work
  <2>8. FedInv' /\ PauseInv'
    BY <2>1, <2>3, <2>4, <2>5 DEF LifeInv, FedInv, PauseInv
  <2>9. Len(sdk) \in Nat
    BY <1>1, LenProperties DEF RunnerTypes
  <2>10. FeedMoves
    BY <2>5, <2>9 DEF FeedMoves
  <2> QED
    BY <2>5, <2>6, <2>7, <2>8, <2>10 DEF RunnerMoves, WorkMoves
<1>6. AnswerMoves /\ StopMoves
  BY AnswersSame, StopsGrow DEF FirstFrame, planes
<1> QED
  BY <1>2, <1>3, <1>4, <1>5, <1>6 DEF TurnMoves, PlaneMoves

\* a death of the process,
LEMMA CrashMoves ==
  ASSUME LifeInv, Crash PROVE TurnMoves
<1>1. TurnTypes /\ OtherTypes /\ RunnerTypes
  BY LifeTypes
<1>2. LogMoves
  BY <1>1, Quiet DEF Crash, ledgerVars
<1>3. QueueMoves /\ CountMoves
  BY <1>1, QueueSame, CountSame DEF Crash
<1>4. OtherTypes'
  <2>1. control' \subseteq {"interrupt", "reply"} \X Ids
    BY <1>1, IdFacts DEF OtherTypes, RunnerTypes, Crash
  <2>2. mishaps' \in 0..MaxMishaps
    BY <1>1, Mishaps DEF Crash
  <2> QED
    BY <1>1, <2>1, <2>2 DEF Crash, OtherTypes
<1>5. RunnerMoves
  <2>1. /\ pendingTurns' = <<>> /\ activeTurn' = None /\ sdk' = <<>> /\ terminalEmitted' = {}
        /\ parked' = {} /\ pauses' = {} /\ accepting' = None
    BY DEF Crash
  <2>2. RunnerTypes'
    BY <2>1, EmptySeq DEF RunnerTypes, Crash
  <2>3. Owned' = {} /\ Work' = {}
    BY <2>1, RangeOfEmpty DEF Owned, Work
  <2>4. FedInv' /\ PauseInv'
    BY <2>1, RangeOfEmpty DEF FedInv, PauseInv
  <2>5. Len(sdk) \in Nat /\ Len(sdk') = 0
    BY <1>1, <2>1, LenProperties, EmptySeq DEF RunnerTypes
  <2>6. FeedMoves
    BY <2>5 DEF FeedMoves
  <2> QED
    BY <2>1, <2>2, <2>3, <2>4, <2>6 DEF RunnerMoves, WorkMoves
<1>6. AnswerMoves
  <2> SUFFICES ASSUME NEW u \in Turns, Continues(u)' PROVE Continues(u)
    BY DEF AnswerMoves
  <2> QED
    BY DEF Crash, Continues, Turn
<1>7. StopMoves
  <2> SUFFICES ASSUME NEW id \in Outstanding PROVE id \in Outstanding'
    BY DEF StopMoves
  <2>1. id \in Ids
    BY <1>1 DEF Outstanding, RunnerTypes
  <2>2. <<"interrupt", id>> \in control'
    BY DEF Crash, Outstanding
  <2> QED
    BY <2>1, <2>2 DEF Outstanding
<1> QED
  BY <1>2, <1>3, <1>4, <1>5, <1>6, <1>7 DEF TurnMoves, PlaneMoves

\* What ack and nak do with the queue.
LEMMA AckFacts ==
  ASSUME RunnerTypes, NEW t, Ack(t) \/ Nak(t)
  PROVE  held' \in BOOLEAN /\ (Ack(t) => queue' = Settled(t)) /\ (Nak(t) => queue' = queue)
  BY DEF RunnerTypes, Ack, Nak

\* Forgetting a turn leaves the others owned.
LEMMA Forgotten ==
  ASSUME LifeInv, NEW t \in Turns, t \notin pauses, pauses' = pauses, Forget(t)
  PROVE  /\ pendingTurns' \in Seq(Turns) /\ activeTurn' \in Turns \cup {None}
         /\ Owned' \subseteq Owned /\ Owned \ {t} \subseteq Owned'
         /\ pauses \subseteq {activeTurn'}
<1>1. RunnerTypes
  BY LifeTypes
<1>2. /\ pendingTurns' \in Seq(Turns) /\ Range(pendingTurns') \subseteq Range(pendingTurns)
      /\ Range(pendingTurns) \ {t} \subseteq Range(pendingTurns')
  BY <1>1, Removed DEF RunnerTypes, Forget
<1>3. activeTurn' = IF activeTurn = t THEN None ELSE activeTurn
  BY DEF Forget
<1>4. Owned' \subseteq Owned /\ Owned \ {t} \subseteq Owned'
  BY <1>2, <1>3 DEF Owned
<1> QED
  BY <1>1, <1>2, <1>3, <1>4, PausedIsOwned DEF RunnerTypes

\* finalizeCommandIfAlreadyTerminal,
LEMMA CheckTerminalMoves ==
  ASSUME LifeInv, NEW t \in Turns, CheckTerminal(t) PROVE TurnMoves
<1>1. TurnTypes /\ OtherTypes /\ RunnerTypes
  BY LifeTypes
<1>2. LogMoves
  BY <1>1, Quiet DEF CheckTerminal, ledgerVars
<1>3. CountMoves
  <2>1. deliveries \in [Turns -> 0..MaxDeliver] /\ deliveries[t] < MaxDeliver
        /\ deliveries' = [deliveries EXCEPT ![t] = @ + 1]
    BY <1>1 DEF TurnTypes, CheckTerminal, Deliverable
  <2> QED
    BY <2>1, BoundsAssumption DEF CountMoves
<1>4. OtherTypes' /\ AnswerMoves /\ StopMoves
  BY <1>1, AnswersSame, StopsGrow DEF CheckTerminal, OtherTypes
<1>5. Len(sdk) \in Nat /\ sdk' = sdk /\ pauses' = pauses
  BY <1>1, LenProperties DEF RunnerTypes, CheckTerminal
<1>6. FeedMoves
  BY <1>5 DEF FeedMoves
<1>7. QueueMoves /\ RunnerMoves
  <2>1. CASE FindTurnTerminal(Turn(t))
    <3>1. TurnClosed(t)'
      BY <1>2, <2>1, IdFacts, ClosedByLedger
    <3>2. QueueMoves
      BY <1>1, <2>1, <3>1, QueueSettled DEF CheckTerminal
    <3>3. RunnerMoves
      <4>1. CASE t \in parked \cap Owned
        <5>1. /\ Forget(t) /\ parked' = parked \ {t} /\ terminalEmitted' = terminalEmitted \cup {t}
              /\ accepting' = accepting /\ t \notin pauses
          BY <2>1, <4>1, PausedIsOwned DEF CheckTerminal
        <5>2. /\ pendingTurns' \in Seq(Turns) /\ activeTurn' \in Turns \cup {None}
              /\ Owned' \subseteq Owned /\ Owned \ {t} \subseteq Owned'
              /\ pauses \subseteq {activeTurn'}
          BY <1>5, <5>1, Forgotten
        <5>3. RunnerTypes'
          BY <1>1, <2>1, <5>1, <5>2 DEF RunnerTypes, CheckTerminal
        <5>4. FedInv'
          BY <1>5, <5>1, <5>2 DEF LifeInv, FedInv
        <5>5. PauseInv'
          BY <1>5, <5>1, <5>2 DEF LifeInv, PauseInv
        <5>6. Work' \subseteq Work
          BY <5>1, <5>2 DEF Work
        <5> QED
          BY <1>6, <3>1, <5>1, <5>3, <5>4, <5>5, <5>6 DEF RunnerMoves, WorkMoves
      <4>2. CASE t \notin parked \cap Owned
        <5>1. UNCHANGED <<accepting, pendingTurns, activeTurn, terminalEmitted, parked, pauses, sdk>>
          BY <2>1, <4>2 DEF CheckTerminal
        <5>2. RunnerTypes'
          BY <1>1, <2>1, <5>1 DEF RunnerTypes, CheckTerminal
        <5> QED
          BY <5>1, <5>2, RunnerIdle
      <4> QED
        BY <4>1, <4>2
    <3> QED
      BY <3>2, <3>3
  <2>2. CASE ~FindTurnTerminal(Turn(t))
    <3>1. /\ queue' = queue /\ accepting' = t /\ accepting = None
          /\ UNCHANGED <<pendingTurns, activeTurn, terminalEmitted, parked>>
      BY <2>2 DEF CheckTerminal
    <3>2. QueueMoves /\ IsHead(t)'
      BY <1>1, <3>1, QueueSame DEF CheckTerminal, Deliverable, IsHead
    <3>3. RunnerTypes'
      BY <1>1, <2>2, <3>1 DEF RunnerTypes, CheckTerminal
    <3>4. Owned' = Owned
      BY <1>5, <3>1 DEF Owned
    <3>5. Work' \subseteq Work \cup {t}
      BY <3>1, <3>4 DEF Work
    <3>6. FedInv' /\ PauseInv'
      BY <1>5, <3>1, <3>4 DEF LifeInv, FedInv, PauseInv
    <3> QED
      BY <1>6, <3>1, <3>2, <3>3, <3>5, <3>6 DEF RunnerMoves, WorkMoves
  <2> QED
    BY <2>1, <2>2
<1> QED
  BY <1>2, <1>3, <1>4, <1>7 DEF TurnMoves, PlaneMoves

\* reattachRedeliveredCommand,
LEMMA ReattachMoves ==
  ASSUME LifeInv, NEW t \in Turns, Reattach(t) PROVE TurnMoves
<1>1. TurnTypes /\ OtherTypes /\ RunnerTypes
  BY LifeTypes
<1>2. CountMoves
  BY <1>1, CountSame DEF Reattach
<1>3. OtherTypes'
  BY <1>1, Mishaps DEF Reattach, OtherTypes
<1>4. AnswerMoves /\ StopMoves
  BY AnswersSame, StopsGrow DEF Reattach
<1>5. Len(sdk) \in Nat /\ sdk' = sdk /\ pauses' = pauses /\ accepting' = None /\ ledger' = ledger
  BY <1>1, LenProperties DEF RunnerTypes, Reattach
<1>6. FeedMoves
  BY <1>5 DEF FeedMoves
<1>7. CASE /\ t \in parked /\ Publish(<<<<CurrentId(t), "failed">>>>)
           /\ terminalEmitted' = terminalEmitted \cup {t} /\ parked' = parked \ {t}
           /\ Forget(t) /\ Ack(t)
  <2>1. LogMoves /\ TurnClosed(t)'
    BY <1>1, <1>5, <1>7, IdFacts, Terminals, PublishedTerminal
  <2>2. QueueMoves /\ held' \in BOOLEAN
    BY <1>1, <1>7, <2>1, AckFacts, QueueSettled
  <2>3. t \notin pauses
    BY <1>7, PausedIsOwned
  <2>4. /\ pendingTurns' \in Seq(Turns) /\ activeTurn' \in Turns \cup {None}
        /\ Owned' \subseteq Owned /\ Owned \ {t} \subseteq Owned'
        /\ pauses \subseteq {activeTurn'}
    BY <1>5, <1>7, <2>3, Forgotten
  <2>5. RunnerTypes'
    BY <1>1, <1>5, <1>7, <2>2, <2>4 DEF RunnerTypes, Reattach
  <2>6. FedInv'
    BY <1>5, <1>7, <2>4 DEF LifeInv, FedInv
  <2>7. PauseInv'
    BY <1>5, <1>7, <2>4 DEF LifeInv, PauseInv
  <2>8. Work' \subseteq Work
    BY <1>5, <1>7, <2>4 DEF Work
  <2>9. RunnerMoves
    BY <1>6, <1>7, <2>1, <2>5, <2>6, <2>7, <2>8 DEF RunnerMoves, WorkMoves
  <2> QED
    BY <1>2, <1>3, <1>4, <2>1, <2>2, <2>9 DEF TurnMoves, PlaneMoves
<1>8. CASE /\ UNCHANGED <<wire, terminalEmitted, parked, pendingTurns, activeTurn>>
           /\ Nak(t) \/ UNCHANGED <<queue, held>>
  <2>1. LogMoves
    BY <1>1, <1>5, <1>8, Quiet
  <2>2. queue' = queue /\ held' \in BOOLEAN
    BY <1>1, <1>8, AckFacts DEF RunnerTypes
  <2>3. QueueMoves
    BY <1>1, <2>2, QueueSame
  <2>4. RunnerTypes'
    BY <1>1, <1>5, <1>8, <2>2 DEF RunnerTypes, Reattach
  <2>5. Owned' = Owned
    BY <1>5, <1>8 DEF Owned
  <2>6. FedInv' /\ PauseInv' /\ Work' \subseteq Work
    BY <1>5, <1>8, <2>5 DEF LifeInv, FedInv, PauseInv, Work
  <2>7. RunnerMoves
    BY <1>6, <1>8, <2>4, <2>6 DEF RunnerMoves, WorkMoves
  <2> QED
    BY <1>2, <1>3, <1>4, <2>1, <2>3, <2>7 DEF TurnMoves, PlaneMoves
<1> QED
  BY <1>7, <1>8 DEF Reattach

\* applyInterruptToTurn closes the turn, or hands the interrupt back.
LEMMA ClosesOrHandsBack ==
  ASSUME LifeInv, NEW t \in Turns, NEW id \in Ids, NEW rest, NEW n \in 0..MaxControlDeliver,
         ledger' = ledger, StopTurn(t, id, rest, n)
  PROVE  /\ LogMoves /\ QueueMoves /\ held' \in BOOLEAN /\ mishaps' \in 0..MaxMishaps
         /\ attempts' \in [Ids -> 0..MaxControlDeliver] /\ pauses' = pauses \ {t}
         /\ control' = rest \/ control' = rest \cup {<<"interrupt", id>>}
         /\ \/ terminalEmitted' = terminalEmitted \cup {t} /\ TurnClosed(t)'
            \/ terminalEmitted' = terminalEmitted \ {t} /\ <<"interrupt", id>> \in control'
<1>1. TurnTypes /\ OtherTypes /\ RunnerTypes
  BY LifeTypes
<1> DEFINE shell(fails) == IF t \in pauses /\ "shell" \notin fails
                           THEN <<<<Question(t), "interrupted">>>> ELSE <<>>
           type(fails) == IF "interrupted" \in fails THEN "failed" ELSE "interrupted"
           e(fails) == <<CurrentId(t), type(fails)>>
<1>2. PICK fails \in SUBSET {"shell", "interrupted", "failed"} :
        /\ IF fails = {} THEN UNCHANGED mishaps ELSE Mishap
        /\ pauses' = pauses \ {t}
        /\ IF type(fails) \notin fails
           THEN /\ Publish(Append(shell(fails), e(fails)))
                /\ terminalEmitted' = terminalEmitted \cup {t}
                /\ IF t \in parked \cap Owned THEN UNCHANGED <<queue, held>> ELSE Ack(t)
           ELSE /\ Publish(shell(fails))
                /\ terminalEmitted' = terminalEmitted \ {t}
                /\ UNCHANGED <<queue, held>>
        /\ IF "interrupted" \in fails
           THEN /\ control' = rest \cup {<<"interrupt", id>>}
                /\ attempts' = [attempts EXCEPT ![id] = n]
           ELSE /\ control' = rest
                /\ attempts' = [attempts EXCEPT ![id] = 0]
  BY DEF StopTurn
<1>3. type(fails) \in TerminalTypes /\ (type(fails) \in fails => "interrupted" \in fails)
  BY Terminals
<1>4. shell(fails) \in Seq(Events)
  <2>1. <<Question(t), "interrupted">> \in Events
    BY IdFacts, Terminals, EventIn
  <2> QED
    BY <2>1, RangeOfOne, EmptySeq
<1>5. e(fails) \in Events
  BY <1>3, IdFacts, Terminals, EventIn
<1>6. mishaps' \in 0..MaxMishaps
  BY <1>1, <1>2, Mishaps DEF OtherTypes
<1>7. attempts' \in [Ids -> 0..MaxControlDeliver]
  <2>1. 0 \in 0..MaxControlDeliver
    BY BoundsAssumption
  <2> QED
    BY <1>1, <1>2, <2>1, CountSet
<1>8. /\ control' = rest \/ control' = rest \cup {<<"interrupt", id>>}
      /\ "interrupted" \in fails => <<"interrupt", id>> \in control'
  BY <1>2
<1>9. CASE type(fails) \notin fails
  <2>1. Publish(Append(shell(fails), e(fails))) /\ terminalEmitted' = terminalEmitted \cup {t}
    BY <1>2, <1>9
  <2> DEFINE s == shell(fails)  x == e(fails)
  <2>2. s \in Seq(Events) /\ x \in Events /\ Publish(Append(s, x))
    BY <1>4, <1>5, <2>1
  <2>3. LogMoves /\ x \in Log'
    <3> HIDE DEF s, x
    <3>1. Append(s, x) \in Seq(Events) /\ Range(Append(s, x)) = Range(s) \cup {x}
      BY <2>2, RangeOfAppend
    <3>2. LogMoves /\ Range(Append(s, x)) \subseteq Log'
      BY <1>1, <2>2, <3>1, PublishedAll
    <3> QED
      BY <3>1, <3>2
  <2>4. TurnClosed(t)'
    BY <1>3, <2>3, IdFacts, ClosedBy
  <2>5. QueueMoves /\ held' \in BOOLEAN
    <3>1. UNCHANGED <<queue, held>> \/ Ack(t)
      BY <1>2, <1>9
    <3>2. queue' = queue \/ queue' = Settled(t)
      BY <3>1 DEF Ack
    <3>3. QueueMoves
      BY <1>1, <2>4, <3>2, QueueSame, QueueSettled
    <3>4. held' \in BOOLEAN
      BY <1>1, <3>1, AckFacts DEF RunnerTypes
    <3> QED
      BY <3>3, <3>4
  <2> QED
    BY <1>2, <1>6, <1>7, <1>8, <2>1, <2>3, <2>4, <2>5
<1>10. CASE type(fails) \in fails
  <2>1. Publish(shell(fails)) /\ terminalEmitted' = terminalEmitted \ {t} /\ UNCHANGED <<queue, held>>
    BY <1>2, <1>10
  <2>2. LogMoves
    BY <1>1, <1>4, <2>1, PublishedAll
  <2>3. QueueMoves /\ held' \in BOOLEAN
    BY <1>1, <2>1, QueueSame DEF RunnerTypes
  <2>4. <<"interrupt", id>> \in control'
    BY <1>3, <1>8, <1>10
  <2> QED
    BY <1>2, <1>6, <1>7, <1>8, <2>1, <2>2, <2>3, <2>4
<1> QED
  BY <1>9, <1>10

\* acceptCommandTurn,
LEMMA AcceptMoves ==
  ASSUME LifeInv, NEW t \in Turns, Accept(t) PROVE TurnMoves
<1>1. TurnTypes /\ OtherTypes /\ RunnerTypes
  BY LifeTypes
<1>2. CountMoves
  BY <1>1, CountSame DEF Accept
<1>3. /\ pendingTurns' = Append(pendingTurns, t) /\ parked' = parked \ {t} /\ ledger' = ledger
      /\ activeTurn' = activeTurn /\ accepting' = None /\ accepting = t
      /\ rotated' = rotated \ {t} /\ UNCHANGED <<replies, failing, candidate>>
  BY DEF Accept
<1>4. t \notin Owned
  BY DEF Accept, Matches
<1>5. pendingTurns' \in Seq(Turns) /\ Range(pendingTurns') = Range(pendingTurns) \cup {t}
  BY <1>1, <1>3, RangeOfAppend DEF RunnerTypes
<1>6. pauses \ {t} = pauses /\ t # None
  BY <1>4, TurnsAssumption DEF Owned
<1>7. Len(sdk) \in Nat /\ sdk \in Seq(Turns)
  BY <1>1, LenProperties DEF RunnerTypes
<1>8. t \in Work
  BY <1>3, <1>6 DEF Work
<1>9. pauses' = pauses => Owned' = Owned \cup {t} /\ PauseInv'
  BY <1>3, <1>5, <1>6 DEF Owned, LifeInv, PauseInv
<1>10. CASE Turn(t) \in interrupts
  <2> DEFINE id == Turn(t)
  <2>1. /\ StopTurn(t, id, control, attempts[id])
        /\ interrupts' = interrupts \ {id} /\ sdk' = sdk
    BY <1>10 DEF Accept
  <2>2. id \in Ids /\ id[1] = t
    BY IdFacts
  <2>3. attempts[id] \in 0..MaxControlDeliver
    BY <1>1, <2>2 DEF OtherTypes
  <2> HIDE DEF id
  <2>4. /\ LogMoves /\ QueueMoves /\ held' \in BOOLEAN /\ mishaps' \in 0..MaxMishaps
        /\ attempts' \in [Ids -> 0..MaxControlDeliver] /\ pauses' = pauses \ {t}
        /\ control' = control \/ control' = control \cup {<<"interrupt", id>>}
        /\ \/ terminalEmitted' = terminalEmitted \cup {t} /\ TurnClosed(t)'
           \/ terminalEmitted' = terminalEmitted \ {t} /\ <<"interrupt", id>> \in control'
    BY <1>3, <2>1, <2>2, <2>3, ClosesOrHandsBack
  <2>5. pauses' = pauses
    BY <1>6, <2>4
  <2>6. StopMoves
    <3>1. Outstanding \ {id} \subseteq Outstanding'
      BY <2>1, <2>4 DEF Outstanding
    <3>2. <<"interrupt", id>> \in control' => id \in Outstanding'
      BY <2>2 DEF Outstanding
    <3> QED
      BY <2>2, <2>4, <3>1, <3>2, StopsOne
  <2>7. OtherTypes'
    BY <1>1, <1>3, <2>2, <2>4 DEF OtherTypes
  <2>8. AnswerMoves
    BY <1>3, <2>4 DEF AnswerMoves, Continues
  <2>9. RunnerTypes'
    BY <1>1, <1>3, <1>5, <2>1, <2>4, <2>5 DEF RunnerTypes
  <2>10. FedInv' /\ Work' \subseteq Work /\ FeedMoves
    BY <1>3, <1>7, <1>8, <1>9, <2>1, <2>4, <2>5 DEF LifeInv, FedInv, Work, FeedMoves
  <2>11. RunnerMoves
    BY <1>9, <2>4, <2>5, <2>9, <2>10 DEF RunnerMoves, WorkMoves
  <2> QED
    BY <1>2, <2>4, <2>6, <2>7, <2>8, <2>11 DEF TurnMoves, PlaneMoves
<1>11. CASE Turn(t) \notin interrupts
  <2>1. /\ terminalEmitted' = terminalEmitted \ {t} /\ sdk' = Append(sdk, t)
        /\ UNCHANGED <<wire, queue, held, control, attempts, pauses, interrupts, mishaps>>
    BY <1>11 DEF Accept
  <2>2. LogMoves /\ QueueMoves /\ StopMoves
    BY <1>1, <1>3, <2>1, Quiet, QueueSame, StopsGrow
  <2>3. sdk' \in Seq(Turns) /\ Range(sdk') = Range(sdk) \cup {t} /\ Last(sdk') = t
    <3>1. sdk' \in Seq(Turns) /\ Range(sdk') = Range(sdk) \cup {t}
      BY <1>7, <2>1, RangeOfAppend
    <3>2. Len(sdk') = Len(sdk) + 1 /\ sdk'[Len(sdk) + 1] = t
      BY <1>7, <2>1, AppendProperties
    <3> QED
      BY <3>1, <3>2 DEF Last
  <2>4. RunnerTypes'
    BY <1>1, <1>3, <1>5, <2>1, <2>3 DEF RunnerTypes
  <2>5. FedInv'
    BY <1>3, <1>9, <2>1, <2>3 DEF LifeInv, FedInv
  <2>6. Work' \subseteq Work
    BY <1>3, <1>8, <1>9, <2>1 DEF Work
  <2>7. FeedMoves
    BY <1>4, <2>3 DEF FeedMoves
  <2>8. RunnerMoves
    BY <1>9, <2>1, <2>4, <2>5, <2>6, <2>7 DEF RunnerMoves, WorkMoves
  <2>9. OtherTypes' /\ AnswerMoves
    BY <1>1, <1>3, <2>1 DEF OtherTypes, AnswerMoves, Continues
  <2> QED
    BY <1>2, <2>2, <2>8, <2>9 DEF TurnMoves, PlaneMoves
<1> QED
  BY <1>10, <1>11

\* publishTurnTerminalOrDefer closes the turn and acks, or parks it.
LEMMA ClosesOrDefers ==
  ASSUME LifeInv, NEW t \in Turns, NEW type \in TerminalTypes, ledger' = ledger,
         PublishTurnTerminalOrDefer(t, type)
  PROVE  /\ LogMoves /\ QueueMoves /\ held' \in BOOLEAN /\ mishaps' \in 0..MaxMishaps
         /\ \/ /\ terminalEmitted' = terminalEmitted \cup {t} /\ parked' = parked \ {t}
               /\ TurnClosed(t)'
            \/ terminalEmitted' = terminalEmitted /\ parked' = parked \cup {t}
<1>1. TurnTypes /\ OtherTypes /\ RunnerTypes
  BY LifeTypes
<1>2. CASE /\ Publish(<<<<CurrentId(t), type>>>>)
           /\ terminalEmitted' = terminalEmitted \cup {t} /\ parked' = parked \ {t}
           /\ Ack(t) /\ UNCHANGED mishaps
  <2>1. LogMoves /\ TurnClosed(t)'
    BY <1>1, <1>2, IdFacts, PublishedTerminal
  <2>2. QueueMoves /\ held' \in BOOLEAN
    BY <1>1, <1>2, <2>1, AckFacts, QueueSettled
  <2> QED
    BY <1>1, <1>2, <2>1, <2>2 DEF OtherTypes
<1>3. CASE /\ Mishap /\ parked' = parked \cup {t} /\ Nak(t) /\ UNCHANGED <<wire, terminalEmitted>>
  <2>1. LogMoves
    BY <1>1, <1>3, Quiet
  <2>2. QueueMoves /\ held' \in BOOLEAN
    BY <1>1, <1>3, AckFacts, QueueSame
  <2> QED
    BY <1>1, <1>3, <2>1, <2>2, Mishaps
<1> QED
  BY <1>2, <1>3 DEF PublishTurnTerminalOrDefer

\* the provider's result,
LEMMA ResultMoves ==
  ASSUME LifeInv, Result PROVE TurnMoves
<1>1. TurnTypes /\ OtherTypes /\ RunnerTypes
  BY LifeTypes
<1>2. CountMoves
  BY <1>1, CountSame DEF Result
<1>3. AnswerMoves /\ StopMoves
  BY AnswersSame, StopsGrow DEF Result
<1>4. /\ sdk \in Seq(Turns) /\ sdk # <<>> /\ sdk' = Tail(sdk) /\ activeTurn' = None
      /\ UNCHANGED <<ledger, accepting, pendingTurns, pauses>> /\ activeTurn \notin pauses
  BY <1>1 DEF RunnerTypes, Result
<1>5. sdk' \in Seq(Turns) /\ Range(sdk') \subseteq Range(sdk) /\ FeedMoves
  <2>1. sdk' \in Seq(Turns) /\ Range(sdk') \subseteq Range(sdk)
    BY <1>4, RangeOfTail
  <2>2. Len(sdk') = Len(sdk) - 1 /\ Len(sdk) \in Nat
    BY <1>4, HeadTailProperties, LenProperties
  <2> QED
    BY <2>1, <2>2 DEF FeedMoves
<1>6. pauses = {}
  BY <1>4, PausedIsOwned
<1>7. Owned = Owned' \cup ({activeTurn} \ {None})
  BY <1>4 DEF Owned
<1>8. PauseInv'
  BY <1>4, <1>6 DEF PauseInv
<1>9. CASE activeTurn \in terminalEmitted \cup {None}
  <2>1. UNCHANGED <<wire, terminalEmitted, parked, queue, held, mishaps>>
    BY <1>9 DEF Result
  <2>2. LogMoves /\ QueueMoves
    BY <1>1, <1>4, <2>1, Quiet, QueueSame
  <2>3. OtherTypes'
    BY <1>1, <2>1 DEF OtherTypes, Result
  <2>4. RunnerTypes'
    BY <1>1, <1>4, <1>5, <2>1 DEF RunnerTypes, Result
  <2>5. FedInv'
    BY <1>5, <1>7, <1>9, <2>1 DEF LifeInv, FedInv
  <2>6. Work' \subseteq Work
    BY <1>4, <1>7, <2>1 DEF Work
  <2>7. RunnerMoves
    BY <1>5, <1>8, <2>1, <2>4, <2>5, <2>6 DEF RunnerMoves, WorkMoves
  <2> QED
    BY <1>2, <1>3, <2>2, <2>3, <2>7 DEF TurnMoves, PlaneMoves
<1>10. CASE activeTurn \notin terminalEmitted \cup {None}
  <2>1. activeTurn \in Turns /\ PublishTurnTerminalOrDefer(activeTurn, "completed")
    BY <1>1, <1>10 DEF Result, RunnerTypes
  <2>2. PICK t \in Turns : t = activeTurn
    BY <2>1
  <2>3. PublishTurnTerminalOrDefer(t, "completed")
    BY <2>1, <2>2
  <2>4. /\ LogMoves /\ QueueMoves /\ held' \in BOOLEAN /\ mishaps' \in 0..MaxMishaps
        /\ \/ /\ terminalEmitted' = terminalEmitted \cup {t} /\ parked' = parked \ {t}
              /\ TurnClosed(t)'
           \/ terminalEmitted' = terminalEmitted /\ parked' = parked \cup {t}
    BY <1>4, <2>3, Terminals, ClosesOrDefers
  <2>5. OtherTypes'
    BY <1>1, <2>4 DEF OtherTypes, Result
  <2>6. RunnerTypes'
    BY <1>1, <1>4, <1>5, <2>4 DEF RunnerTypes, Result
  <2>7. FedInv'
    BY <1>5, <1>7, <2>2, <2>4 DEF LifeInv, FedInv
  <2>8. Work' \subseteq Work
    BY <1>4, <1>7, <2>4 DEF Work
  <2>9. RunnerMoves
    BY <1>5, <1>8, <2>4, <2>6, <2>7, <2>8 DEF RunnerMoves, WorkMoves
  <2> QED
    BY <1>2, <1>3, <2>4, <2>5, <2>9 DEF TurnMoves, PlaneMoves
<1> QED
  BY <1>9, <1>10

\* a rate limit,
LEMMA RateLimitMoves ==
  ASSUME LifeInv, NEW t \in Turns, RateLimit(t) PROVE TurnMoves
<1>1. TurnTypes /\ OtherTypes /\ RunnerTypes
  BY LifeTypes
<1>2. CountMoves
  BY <1>1, CountSame DEF RateLimit
<1>3. AnswerMoves /\ StopMoves
  BY AnswersSame, StopsGrow DEF RateLimit
<1>4. /\ UNCHANGED <<ledger, accepting, pauses, sdk, failing, control, attempts, candidate>>
      /\ UNCHANGED <<rotated, interrupts, replies>> /\ t \notin terminalEmitted \cup pauses
      /\ PublishTurnTerminalOrDefer(t, "failed")
      /\ IF t \in terminalEmitted' THEN Forget(t) ELSE UNCHANGED <<pendingTurns, activeTurn>>
  BY DEF RateLimit
<1>5. /\ LogMoves /\ QueueMoves /\ held' \in BOOLEAN /\ mishaps' \in 0..MaxMishaps
      /\ \/ /\ terminalEmitted' = terminalEmitted \cup {t} /\ parked' = parked \ {t}
            /\ TurnClosed(t)'
         \/ terminalEmitted' = terminalEmitted /\ parked' = parked \cup {t}
  BY <1>4, Terminals, ClosesOrDefers
<1>6. /\ pendingTurns' \in Seq(Turns) /\ activeTurn' \in Turns \cup {None}
      /\ Owned' \subseteq Owned /\ Owned \ {t} \subseteq Owned'
      /\ pauses \subseteq {activeTurn'} /\ (t \notin terminalEmitted' => Owned' = Owned)
  <2>1. CASE t \in terminalEmitted'
    BY <1>4, <2>1, Forgotten
  <2>2. CASE t \notin terminalEmitted'
    <3>1. UNCHANGED <<pendingTurns, activeTurn>>
      BY <1>4, <2>2
    <3>2. Owned' = Owned
      BY <1>4, <3>1 DEF Owned
    <3> QED
      BY <1>1, <2>2, <3>1, <3>2 DEF RunnerTypes, LifeInv, PauseInv
  <2> QED
    BY <2>1, <2>2
<1>7. OtherTypes'
  BY <1>1, <1>4, <1>5 DEF OtherTypes
<1>8. RunnerTypes'
  BY <1>1, <1>4, <1>5, <1>6 DEF RunnerTypes
<1>9. FedInv'
  BY <1>4, <1>5, <1>6 DEF LifeInv, FedInv
<1>10. PauseInv'
  BY <1>4, <1>5, <1>6 DEF LifeInv, PauseInv
<1>11. Work' \subseteq Work
  BY <1>4, <1>5, <1>6 DEF Work
<1>12. Len(sdk) \in Nat
  BY <1>1, LenProperties DEF RunnerTypes
<1>13. FeedMoves
  BY <1>4, <1>12 DEF FeedMoves
<1>14. RunnerMoves
  BY <1>5, <1>8, <1>9, <1>10, <1>11, <1>13 DEF RunnerMoves, WorkMoves
<1> QED
  BY <1>2, <1>3, <1>5, <1>7, <1>14 DEF TurnMoves, PlaneMoves

\* a question,
LEMMA AskMoves ==
  ASSUME LifeInv, Ask PROVE TurnMoves
<1>1. TurnTypes /\ OtherTypes /\ RunnerTypes
  BY LifeTypes
<1>2. CountMoves
  BY <1>1, CountSame DEF Ask
<1>3. StopMoves
  BY StopsGrow DEF Ask
<1>4. /\ UNCHANGED <<ledger, accepting, pendingTurns, activeTurn, parked, sdk, control>>
      /\ activeTurn \in Turns /\ activeTurn \notin parked \cup pauses
  BY TurnsAssumption DEF Ask
<1>5. PICK t \in Turns : t = activeTurn
  BY <1>4
<1>6. Len(sdk) \in Nat
  BY <1>1, LenProperties DEF RunnerTypes
<1>7. FeedMoves
  BY <1>4, <1>6 DEF FeedMoves
<1>8. OtherTypes'
  BY <1>1, Mishaps DEF Ask, OtherTypes
<1>9. AnswerMoves
  <2> SUFFICES ASSUME NEW u \in Turns, Continues(u)' PROVE Continues(u)
    BY DEF AnswerMoves
  <2> QED
    BY DEF Ask, Rotate, Continues
<1>10. pauses' \subseteq pauses \cup {t} /\ pauses \ {t} \subseteq pauses' /\ t # None
  BY <1>5, TurnsAssumption DEF Ask, Rotate
<1>11. Owned' = Owned
  BY <1>4, <1>5, <1>10 DEF Owned
<1>12. PauseInv'
  BY <1>4, <1>5, <1>10 DEF LifeInv, PauseInv
<1>13. CASE /\ Publish(<<<<Question(t), "awaiting_input">>>>)
            /\ UNCHANGED <<terminalEmitted, queue, held, mishaps>>
  <2>1. LogMoves /\ QueueMoves
    BY <1>1, <1>4, <1>13, IdFacts, Terminals, PublishedOne, QueueSame
  <2>2. RunnerTypes'
    BY <1>1, <1>4, <1>10, <1>13 DEF RunnerTypes, Ask, Rotate
  <2>3. FedInv' /\ Work' = Work
    BY <1>4, <1>11, <1>13 DEF LifeInv, FedInv, Work
  <2>4. RunnerMoves
    BY <1>7, <1>12, <1>13, <2>2, <2>3 DEF RunnerMoves, WorkMoves
  <2> QED
    BY <1>2, <1>3, <1>8, <1>9, <2>1, <2>4 DEF TurnMoves, PlaneMoves
<1>14. CASE /\ Publish(<<<<CurrentId(t), "failed">>>>)
            /\ terminalEmitted' = terminalEmitted \cup {t} /\ Ack(t)
  <2>1. LogMoves /\ TurnClosed(t)'
    BY <1>1, <1>4, <1>14, IdFacts, Terminals, PublishedTerminal
  <2>2. QueueMoves /\ held' \in BOOLEAN
    BY <1>1, <1>14, <2>1, AckFacts, QueueSettled
  <2>3. RunnerTypes'
    BY <1>1, <1>4, <1>10, <1>14, <2>2 DEF RunnerTypes, Ask, Rotate
  <2>4. FedInv' /\ Work' \subseteq Work
    BY <1>4, <1>11, <1>14 DEF LifeInv, FedInv, Work
  <2>5. RunnerMoves
    BY <1>7, <1>12, <1>14, <2>1, <2>3, <2>4 DEF RunnerMoves, WorkMoves
  <2> QED
    BY <1>2, <1>3, <1>8, <1>9, <2>1, <2>2, <2>5 DEF TurnMoves, PlaneMoves
<1> QED
  BY <1>5, <1>13, <1>14 DEF Ask

\* and an interrupt that finds its turn.
LEMMA ApplyInterruptMoves ==
  ASSUME LifeInv, NEW id \in Ids, NEW t \in Turns, ApplyInterrupt(id, t) PROVE TurnMoves
<1>1. TurnTypes /\ OtherTypes /\ RunnerTypes
  BY LifeTypes
<1>2. CountMoves
  BY <1>1, CountSame DEF ApplyInterrupt
<1>3. UNCHANGED <<ledger, accepting, pendingTurns, activeTurn, parked, rotated, interrupts,
                  replies, sdk, failing, candidate>>
  BY DEF ApplyInterrupt
<1>4. id[1] = t
  BY IdFacts DEF ApplyInterrupt, Matches
<1>5. attempts[id] + 1 \in 0..MaxControlDeliver /\ 0 \in 0..MaxControlDeliver
  BY <1>1, CountOne, BoundsAssumption DEF ApplyInterrupt
<1>6. Len(sdk) \in Nat
  BY <1>1, LenProperties DEF RunnerTypes
<1>7. FeedMoves
  BY <1>3, <1>6 DEF FeedMoves
<1>8. ASSUME control' = Taken(id) \/ control' = Taken(id) \cup {<<"interrupt", id>>},
             TurnClosed(t)' \/ <<"interrupt", id>> \in control'
      PROVE  StopMoves
  <2>1. Outstanding \ {id} \subseteq Outstanding'
    BY <1>3, <1>8 DEF Outstanding, Taken
  <2>2. <<"interrupt", id>> \in control' => id \in Outstanding'
    BY DEF Outstanding
  <2> QED
    BY <1>4, <1>8, <2>1, <2>2, StopsOne
<1>9. CASE t \in terminalEmitted
  <2>1. /\ UNCHANGED <<wire, terminalEmitted, pauses, queue, held, mishaps>>
        /\ control' = Taken(id) /\ attempts' = [attempts EXCEPT ![id] = 0]
    BY <1>9 DEF ApplyInterrupt
  <2>2. LogMoves /\ QueueMoves
    BY <1>1, <1>3, <2>1, Quiet, QueueSame
  <2>3. TurnClosed(t)'
    BY <1>9, <2>2, StaysClosed DEF LifeInv, ClosedInv
  <2>4. attempts' \in [Ids -> 0..MaxControlDeliver]
    BY <1>1, <1>5, <2>1, CountSet
  <2>5. OtherTypes'
    BY <1>1, <1>3, <2>1, <2>4 DEF OtherTypes, Taken
  <2>6. RunnerTypes'
    BY <1>1, <1>3, <2>1 DEF RunnerTypes
  <2>7. RunnerMoves
    BY <1>3, <2>1, <2>6, RunnerIdle
  <2>8. StopMoves /\ AnswerMoves
    BY <1>3, <1>8, <2>1, <2>3 DEF AnswerMoves, Continues, Taken
  <2> QED
    BY <1>2, <2>2, <2>5, <2>7, <2>8 DEF TurnMoves, PlaneMoves
<1>10. CASE t \notin terminalEmitted
  <2>1. StopTurn(t, id, Taken(id), attempts[id] + 1)
    BY <1>10 DEF ApplyInterrupt
  <2>2. /\ LogMoves /\ QueueMoves /\ held' \in BOOLEAN /\ mishaps' \in 0..MaxMishaps
        /\ attempts' \in [Ids -> 0..MaxControlDeliver] /\ pauses' = pauses \ {t}
        /\ control' = Taken(id) \/ control' = Taken(id) \cup {<<"interrupt", id>>}
        /\ \/ terminalEmitted' = terminalEmitted \cup {t} /\ TurnClosed(t)'
           \/ terminalEmitted' = terminalEmitted \ {t} /\ <<"interrupt", id>> \in control'
    BY <1>3, <1>5, <2>1, ClosesOrHandsBack
  <2>3. StopMoves /\ AnswerMoves
    BY <1>3, <1>8, <2>2 DEF AnswerMoves, Continues, Taken
  <2>4. OtherTypes'
    BY <1>1, <1>3, <2>2 DEF OtherTypes, Taken
  <2>5. \/ terminalEmitted' = terminalEmitted \cup {t} /\ TurnClosed(t)'
        \/ terminalEmitted' = terminalEmitted
    BY <1>10, <2>2
  <2>6. RunnerTypes'
    BY <1>1, <1>3, <2>2, <2>5 DEF RunnerTypes
  <2>7. /\ Owned' \subseteq Owned /\ Owned \ {t} \subseteq Owned'
        /\ t \in pauses => t \in Owned'
    BY <1>3, <2>2, PausedIsOwned DEF Owned
  <2>8. Owned' = Owned
    BY <1>3, <2>2, <2>7 DEF Owned
  <2>9. FedInv' /\ PauseInv'
    BY <1>3, <2>2, <2>5, <2>8 DEF LifeInv, FedInv, PauseInv
  <2>10. Work' \subseteq Work
    BY <1>3, <2>5, <2>8 DEF Work
  <2>11. RunnerMoves
    BY <1>7, <2>5, <2>6, <2>9, <2>10 DEF RunnerMoves, WorkMoves
  <2> QED
    BY <1>2, <2>2, <2>3, <2>4, <2>11 DEF TurnMoves, PlaneMoves
<1> QED
  BY <1>9, <1>10

-----------------------------------------------------------------------------
\* Every step has the shape,
LEMMA LifeStep ==
  ASSUME LifeInv, Next PROVE TurnMoves
  BY EnqueueMoves, EnqueueFailedMoves, AnswerQuestionMoves, CheckTerminalMoves, ReattachMoves,
     AcceptMoves, ExhaustMoves, InputReplyMoves, ExpireReplyMoves, InterruptMoves,
     BufferInterruptMoves, ExpireInterruptMoves, LoseInterruptMoves, ExhaustInterruptMoves, SweepMoves, ApplyInterruptMoves, PersistMoves,
     LapseMoves, FirstFrameMoves, ResultMoves, RateLimitMoves, AskMoves, CrashMoves DEF Next

\* and the shape keeps the invariant.
LEMMA LifeKept ==
  ASSUME LifeInv, TurnMoves PROVE LifeInv'
<1>1. LogMoves /\ QueueMoves /\ CountMoves /\ RunnerMoves /\ WorkMoves
  BY DEF TurnMoves, PlaneMoves, RunnerMoves
<1>2. TurnTypes'
  BY DEF TurnMoves, PlaneMoves, RunnerMoves, TurnTypes, LogMoves, QueueMoves, CountMoves
<1>3. ClosedInv'
  BY <1>1, StaysClosed DEF LifeInv, ClosedInv, WorkMoves
<1>4. HeadInv'
  <2> SUFFICES ASSUME NEW t \in Work' PROVE Spent(t)' \/ IsHead(t)'
    BY DEF HeadInv
  <2>1. CASE IsHead(t)' \/ TurnClosed(t)'
    BY <2>1 DEF Spent
  <2>2. CASE t \in Work
    <3>1. t \in Turns
      <4>1. Range(pendingTurns) \subseteq Turns
        BY LifeTypes, RangeIn DEF RunnerTypes
      <4> QED
        BY <2>2, <4>1, LifeTypes DEF Work, Owned, RunnerTypes
    <3>2. deliveries[t] = MaxDeliver \/ TurnClosed(t) \/ IsHead(t)
      BY <2>2 DEF LifeInv, HeadInv, Spent
    <3>3. CASE deliveries[t] = MaxDeliver
      BY <1>1, <3>1, <3>3 DEF CountMoves, Spent
    <3>4. CASE TurnClosed(t)
      BY <1>1, <3>4, StaysClosed DEF Spent
    <3>5. CASE IsHead(t)
      BY <1>1, <3>1, <3>3, <3>5 DEF QueueMoves, Spent
    <3> QED
      BY <3>2, <3>3, <3>4, <3>5
  <2> QED
    BY <1>1, <2>1, <2>2 DEF WorkMoves
<1>5. AnswerInv'
  BY <1>1 DEF LifeInv, AnswerInv, TurnMoves, AnswerMoves, LogMoves, AnswerBoundary, Question, Answer
<1> QED
  BY <1>2, <1>3, <1>4, <1>5 DEF LifeInv, TurnMoves, RunnerMoves

\* also one that changes nothing,
LEMMA LifeStutter ==
  ASSUME LifeInv, UNCHANGED vars PROVE TurnMoves
<1>1. TurnTypes /\ OtherTypes /\ RunnerTypes
  BY LifeTypes
<1>2. LogMoves /\ QueueMoves /\ CountMoves
  BY <1>1, Quiet, QueueSame, CountSame DEF vars
<1>3. OtherTypes'
  BY <1>1 DEF OtherTypes, vars
<1>4. RunnerMoves
  BY RunnerUntouched DEF vars, runnerVars
<1>5. AnswerMoves /\ StopMoves
  BY AnswersSame, StopsGrow DEF vars
<1> QED
  BY <1>2, <1>3, <1>4, <1>5 DEF TurnMoves, PlaneMoves

\* The invariant holds of an empty session.
LEMMA LifeInit ==
  ASSUME Init PROVE LifeInv
<1>1. TurnTypes
  <2>1. /\ deliveries \in [Turns -> 0..MaxDeliver] /\ mishaps \in 0..MaxMishaps
        /\ attempts \in [Ids -> 0..MaxControlDeliver]
    BY BoundsAssumption DEF Init
  <2>2. RunnerTypes
    BY EmptySeq DEF Init, RunnerTypes
  <2>3. OtherTypes
    BY <2>1 DEF Init, OtherTypes
  <2>4. wire \in Seq(Events) /\ queue \in Seq(Turns) /\ ledger = {}
    BY EmptySeq DEF Init
  <2> QED
    BY <2>1, <2>2, <2>3, <2>4 DEF TurnTypes
<1>2. Owned = {} /\ Work = {} /\ Range(sdk) = {}
  BY RangeOfEmpty DEF Init, Owned, Work
<1> QED
  BY <1>1, <1>2 DEF Init, LifeInv, HeadInv, ClosedInv, FedInv, PauseInv, AnswerInv, Continues

\* It implies what the run checks: two turns at work cannot both be the head.
LEMMA LifeImplies ==
  ASSUME LifeInv PROVE TurnsSafe
<1>1. TypeOK
  BY RangeIn DEF LifeInv, TurnTypes, RunnerTypes, OtherTypes, TypeOK, Events
<1>2. Serialized
  <2> SUFFICES ASSUME NEW t \in Owned \ terminalEmitted, NEW u \in Owned \ terminalEmitted, t # u
               PROVE \E v \in {t, u} : deliveries[v] = MaxDeliver \/ TurnClosed(v)
    BY DEF Serialized
  <2>1. t \in Work /\ u \in Work
    BY DEF Work
  <2>2. (Spent(t) \/ IsHead(t)) /\ (Spent(u) \/ IsHead(u))
    BY <2>1 DEF LifeInv, HeadInv
  <2> QED
    BY <2>2 DEF Spent, IsHead
<1>3. AnswerBacked
  BY DEF LifeInv, AnswerInv, Continues, AnswerBoundary, AnswerBacked, TurnTypes, RunnerTypes
<1> QED
  BY <1>1, <1>2, <1>3 DEF TurnsSafe

\* The invariant holds throughout.
LEMMA LifeInvariant == Spec => []LifeInv
<1>1. Init => LifeInv
  BY LifeInit
<1>2. LifeInv /\ [Next]_vars => LifeInv'
  BY LifeStep, LifeStutter, LifeKept
<1> QED
  BY <1>1, <1>2, PTL DEF Spec

\* Of two turns the process works on one is closed or has had its last delivery,
\* and an answer turn runs only after its answer is durable, for any turns, any
\* max_deliver and any number of mishaps (acceptCommandTurn, rotateTurnForInputReply,
\* handleAnswerSessionTurn).
THEOREM TurnsAreSafe == Spec => []TurnsSafe
<1>1. LifeInv => TurnsSafe
  BY LifeImplies
<1> QED
  BY <1>1, LifeInvariant, PTL

\* No step feeds a prompt to the provider that it still works on, and none takes a
\* command off the data plane before its turn is closed or its deliveries are used
\* up (reattachRedeliveredCommand, publishTurnTerminalOrDefer,
\* finalizeCommandIfAlreadyTerminal).
THEOREM TurnStepsAreSafe == Spec => TurnStepsSafe
<1>1. ASSUME LifeInv, Next
      PROVE  /\ \A t \in Range(sdk) \ (terminalEmitted \cup parked) :
                  Len(sdk') > Len(sdk) => Last(sdk') # t
             /\ \A t \in Range(queue) \ Range(queue') :
                  TurnClosed(t)' \/ deliveries[t] = MaxDeliver
  <2>1. TurnMoves
    BY <1>1, LifeStep
  <2>2. FeedMoves /\ QueueMoves
    BY <2>1 DEF TurnMoves, PlaneMoves, RunnerMoves
  <2>3. FedInv
    BY <1>1 DEF LifeInv
  <2>4. \A t \in Range(sdk) \ (terminalEmitted \cup parked) :
                  Len(sdk') > Len(sdk) => Last(sdk') # t
    BY <2>2, <2>3 DEF FedInv, FeedMoves
  <2> QED
    BY <2>2, <2>4 DEF QueueMoves
<1>2. LifeInv /\ [Next]_vars =>
        [\A t \in Range(sdk) \ (terminalEmitted \cup parked) :
           Len(sdk') > Len(sdk) => Last(sdk') # t]_vars
  BY <1>1
<1>3. LifeInv /\ [Next]_vars =>
        [\A t \in Range(queue) \ Range(queue') :
           TurnClosed(t)' \/ deliveries[t] = MaxDeliver]_vars
  BY <1>1
<1> QED
  BY <1>2, <1>3, LifeInvariant, PTL DEF Spec, TurnStepsSafe, NoDoubleFeed, AckedWhenClosed

\* An interrupt is outstanding until a terminal of its turn is published, or until
\* the control plane refuses it because its deliveries are used up, for any
\* max_deliver (acceptInterrupt, applyInterruptToTurn, bufferInterrupt,
\* expireBufferedInterrupt, markFailed).
THEOREM InterruptsResolve == Spec => InterruptResolves
<1>1. LifeInv /\ [Next]_vars =>
        [\A id \in Outstanding \ Outstanding' :
           \/ TurnClosed(id[1])'
           \/ <<"interrupt", id>> \in control /\ attempts[id] = MaxControlDeliver]_vars
  <2>1. ASSUME LifeInv, Next
        PROVE  \A id \in Outstanding \ Outstanding' :
                 \/ TurnClosed(id[1])'
                 \/ <<"interrupt", id>> \in control /\ attempts[id] = MaxControlDeliver
    BY <2>1, LifeStep DEF TurnMoves, StopMoves, Refused
  <2> QED
    BY <2>1
<1> QED
  BY <1>1, LifeInvariant, PTL DEF Spec, InterruptResolves

-----------------------------------------------------------------------------
(* Test provisions                                                         *)

USE ProvisionAssumption DEF ProvisionAssumption

\* The states of a row, a goroutine and a pass of the backstop.
RowStates == [status : {"none", "pending", "done", "failed"}, attempt : Nat, gen : Nat]
RunStates == [pc : {"idle", "register", "gate", "checkout", "deploy", "release", "state", "mark"},
              target : Targets \cup {NoTarget}, owns : BOOLEAN, raced : BOOLEAN,
              slot : MaybeSlot, result : {"none", "done", "failed"}]
ScanStates == [pc : {"idle", "listed", "claimed"}, target : Targets \cup {NoTarget},
               attempt : Nat, gen : Nat]

\* What the place of a goroutine, a pass or a start says of its other fields:
\* a working goroutine has a target, it holds a slot between checkout and the
\* test state only, and one for an interactive target always owns its row.
ShapeInv ==
  /\ \A w \in Runs :
       /\ runs[w].pc = "idle" => runs[w].target = NoTarget
       /\ runs[w].pc # "idle" => runs[w].target \in Targets
       /\ runs[w].pc \notin {"deploy", "release", "state"} => runs[w].slot = NoSlot
       /\ runs[w].pc \in {"deploy", "release", "state"} => runs[w].slot # NoSlot
       /\ runs[w].pc = "register" => runs[w].target \in Review
       /\ runs[w].target \in Interactive => runs[w].owns
  /\ \A r \in Replicas : scans[r].pc # "idle" => scans[r].target \in Targets
  /\ start.pc = "checked" => start.target \in Interactive

\* A step that puts q in the place of goroutine w and leaves the others alone.
Puts(w, q) ==
  /\ runs' \in [Runs -> RunStates] /\ runs'[w] = q
  /\ \A v \in Runs \ {w} : runs'[v] = runs[v]
\* The fields that no step of a goroutine touches after it was launched.
Keeps(q, p) == q.target = p.target /\ q.owns = p.owns /\ q.raced = p.raced

\* The type invariant, with the sets named.
LEMMA TypeFacts ==
  ProvisionTypeOK => /\ runs \in [Runs -> RunStates] /\ rows \in [Targets -> RowStates]
                     /\ scans \in [Replicas -> ScanStates]
  BY DEF ProvisionTypeOK, RunStates, RowStates, ScanStates

\* Replacing one goroutine is such a step.
LEMMA PutsOne ==
  ASSUME ProvisionTypeOK, NEW w \in Runs, NEW q \in RunStates, runs' = [runs EXCEPT ![w] = q]
  PROVE  Puts(w, q)
  BY TypeFacts DEF Puts


\* Who has not been raced has seen no environment, and there is none: a slot is
\* named only by a step that races everyone under way.
RaceInv ==
  /\ ~test.active => test.slot = NoSlot
  /\ \A w \in Runs : runs[w].pc # "idle" /\ ~runs[w].raced => test.slot = NoSlot
  /\ start.pc = "checked" /\ ~start.raced => test.slot = NoSlot

\* Somebody is at work on the row, or has claimed it and is about to be.
Driven(k) == \/ \E w \in Runs : runs[w].target = k
             \/ \E r \in Replicas : scans[r].pc = "claimed" /\ scans[r].target = k

\* The invariant behind one goroutine a target, for interactive targets and as
\* long as no claim was stray.  One goroutine or one claim at a time is at work
\* on a row, and the row is pending meanwhile, so that Register finds it in
\* flight.  A pass that listed the row can claim it only where its copy is
\* current, and then nobody is at work on it: whoever came since has counted
\* the attempts up, or the registrations.
DriveInv ==
  stray \/ \A k \in Interactive :
    /\ \A v, w \in Runs : runs[v].target = k /\ runs[w].target = k => v = w
    /\ \A r, q \in Replicas :
         /\ scans[r].pc = "claimed" /\ scans[r].target = k
         /\ scans[q].pc = "claimed" /\ scans[q].target = k
         => r = q
    /\ \A w \in Runs, r \in Replicas :
         ~ (runs[w].target = k /\ scans[r].pc = "claimed" /\ scans[r].target = k)
    /\ Driven(k) => rows[k].status = "pending"
    /\ \A r \in Replicas : scans[r].pc = "listed" /\ scans[r].target = k =>
         /\ scans[r].gen <= rows[k].gen
         /\ scans[r].gen = rows[k].gen => scans[r].attempt <= rows[k].attempt
         /\ (scans[r].gen = rows[k].gen /\ scans[r].attempt = rows[k].attempt
               /\ rows[k].status = "pending") => ~Driven(k)

\* The goroutine goes on to the checkout, or to the mark.
LEMMA GateMoves ==
  ASSUME ProvisionTypeOK, NEW w \in Runs, Gate(w)
  PROVE  \E q \in RunStates : /\ Puts(w, q) /\ Keeps(q, runs[w])
                              /\ q.slot = runs[w].slot /\ q.pc \in {"checkout", "mark"}
<1> DEFINE p == runs[w]
           q(r) == [p EXCEPT !.pc = "mark", !.result = r]
           c == [p EXCEPT !.pc = "checkout"]
<1>1. p \in RunStates
  BY TypeFacts
<1>2. \/ runs' = [runs EXCEPT ![w] = c]
      \/ \E r \in {"done", "failed"} : runs' = [runs EXCEPT ![w] = q(r)]
  BY DEF Gate
<1>3. /\ c \in RunStates /\ Keeps(c, p) /\ c.pc = "checkout" /\ c.slot = p.slot
      /\ \A r \in {"done", "failed"} :
           q(r) \in RunStates /\ Keeps(q(r), p) /\ q(r).pc = "mark" /\ q(r).slot = p.slot
  <2> HIDE DEF p
  <2> QED
    BY <1>1 DEF RunStates, MaybeSlot, Keeps
<1> HIDE DEF q, c
<1> QED
  BY <1>2, <1>3, PutsOne

\* It holds a slot that is leased from now on, or goes to the mark without one.
LEMMA CheckoutMoves ==
  ASSUME ProvisionTypeOK, NEW w \in Runs, Checkout(w)
  PROVE  \E q \in RunStates : 
           /\ Puts(w, q) /\ Keeps(q, runs[w])
           /\ \/ q.pc = "mark" /\ q.slot = runs[w].slot /\ leases' \ lost' = leases \ lost
              \/ q.pc = "deploy" /\ q.slot \in Slots /\ lost' = lost /\ leases' = leases \cup {q.slot}
<1> DEFINE p == runs[w]
           q(s) == [p EXCEPT !.pc = "deploy", !.slot = s]
           c == [p EXCEPT !.pc = "mark", !.result = "failed"]
<1>1. p \in RunStates
  BY TypeFacts
<1>2. \/ runs' = [runs EXCEPT ![w] = c] /\ leases' \ lost' = leases \ lost
      \/ \E s \in Slots : runs' = [runs EXCEPT ![w] = q(s)] /\ lost' = lost /\ leases' = leases \cup {s}
  BY DEF Checkout
<1>3. /\ c \in RunStates /\ Keeps(c, p) /\ c.pc = "mark" /\ c.slot = p.slot
      /\ \A s \in Slots : q(s) \in RunStates /\ Keeps(q(s), p) /\ q(s).pc = "deploy" /\ q(s).slot = s
  <2> HIDE DEF p
  <2> QED
    BY <1>1 DEF RunStates, MaybeSlot, Keeps
<1> HIDE DEF q, c
<1> QED
  BY <1>2, <1>3, PutsOne

\* It goes on to the test state, or to give the slot back.
LEMMA DeployMoves ==
  ASSUME ProvisionTypeOK, NEW w \in Runs, Deploy(w)
  PROVE  \E q \in RunStates : /\ Puts(w, q) /\ Keeps(q, runs[w])
                              /\ q.slot = runs[w].slot /\ q.pc \in {"state", "release"}
<1> DEFINE p == runs[w]
           q(pc) == [p EXCEPT !.pc = pc]
<1>1. p \in RunStates
  BY TypeFacts
<1>2. \E pc \in {"state", "release"} : runs' = [runs EXCEPT ![w] = q(pc)]
  BY DEF Deploy
<1>3. \A pc \in {"state", "release"} :
        q(pc) \in RunStates /\ Keeps(q(pc), p) /\ q(pc).pc = pc /\ q(pc).slot = p.slot
  <2> HIDE DEF p
  <2> QED
    BY <1>1 DEF RunStates, MaybeSlot, Keeps
<1> HIDE DEF q
<1> QED
  BY <1>2, <1>3, PutsOne

\* It no longer holds the slot.
LEMMA ReleaseCheckedOutSlotMoves ==
  ASSUME ProvisionTypeOK, NEW w \in Runs, ReleaseCheckedOutSlot(w)
  PROVE  \E q \in RunStates : /\ Puts(w, q) /\ Keeps(q, runs[w])
                              /\ q.slot = NoSlot /\ q.pc = "mark"
<1> DEFINE p == runs[w]
           q == [p EXCEPT !.pc = "mark", !.result = "failed", !.slot = NoSlot]
<1>1. p \in RunStates
  BY TypeFacts
<1>2. runs' = [runs EXCEPT ![w] = q]
  BY DEF ReleaseCheckedOutSlot
<1>3. q \in RunStates /\ Keeps(q, p) /\ q.pc = "mark" /\ q.slot = NoSlot
  <2> HIDE DEF p
  <2> QED
    BY <1>1 DEF RunStates, MaybeSlot, Keeps
<1> HIDE DEF q
<1> QED
  BY <1>2, <1>3, PutsOne

\* It stays on its target, and owns the row if it did.
LEMMA RegisterReviewMoves ==
  ASSUME ProvisionTypeOK, NEW w \in Runs, RegisterReview(w)
  PROVE  \E q \in RunStates : /\ Puts(w, q) /\ q.target = runs[w].target /\ q.raced = runs[w].raced
                              /\ runs[w].owns => q.owns
                              /\ q.slot = runs[w].slot /\ q.pc = "gate"
<1> DEFINE p == runs[w]
           q(b) == [p EXCEPT !.pc = "gate", !.owns = b]
           b == p.owns \/ rows' # rows
<1>1. p \in RunStates
  BY TypeFacts
<1>0. b \in BOOLEAN /\ (p.owns => b)
  BY Zenon
<1> HIDE DEF b
<1>2. runs' = [runs EXCEPT ![w] = q(b)]
  BY DEF RegisterReview, b
<1>3. \A d \in BOOLEAN :
        /\ q(d) \in RunStates /\ q(d).target = p.target /\ q(d).raced = p.raced
        /\ q(d).owns = d /\ q(d).pc = "gate" /\ q(d).slot = p.slot
  <2> HIDE DEF p
  <2> QED
    BY <1>1, <1>0 DEF RunStates, MaybeSlot, Keeps
<1> HIDE DEF q
<1> QED
  BY <1>2, <1>3, PutsOne, <1>0

\* A goroutine of the review kind starts.
LEMMA ReviewReadyMoves ==
  ASSUME ProvisionTypeOK, NEW k \in Review, NEW w \in Runs, ReviewReady(w, k)
  PROVE  \E q \in RunStates : /\ Puts(w, q) /\ q.target = k /\ q.raced /\ q.slot = NoSlot /\ q.pc = "register"
<1> DEFINE p == runs[w]
           q == [NoRun EXCEPT !.pc = "register", !.target = k, !.raced = TRUE]
<1>1. p \in RunStates
  BY TypeFacts
<1>2. runs' = [runs EXCEPT ![w] = q]
  BY DEF ReviewReady
<1>3. /\ q \in RunStates /\ q.target = k /\ q.raced /\ q.slot = NoSlot /\ q.pc = "register"
  <2> HIDE DEF p
  <2> QED
    BY <1>1 DEF RunStates, MaybeSlot, NoRun, Targets
<1> HIDE DEF q
<1> QED
  BY <1>2, <1>3, PutsOne

\* A start finds the row pending and does nothing, or registers it and launches
\* one goroutine that owns it.
LEMMA RegisterStartMoves ==
  ASSUME ProvisionTypeOK, ShapeInv, NEW w \in Runs, RegisterStart(w)
  PROVE  \/ runs' = runs /\ rows' = rows
         \/ /\ rows[start.target].status # "pending"
            /\ rows' = [rows EXCEPT ![start.target] = Registered(@)]
            /\ \E q \in RunStates : /\ Puts(w, q) /\ q.pc \in {"gate", "checkout"} /\ q.slot = NoSlot
                                    /\ q.target = start.target /\ q.owns /\ q.raced = start.raced
<1> DEFINE q == [NoRun EXCEPT !.pc = IF start.ref THEN "checkout" ELSE "gate",
                              !.target = start.target, !.owns = TRUE, !.raced = start.raced]
<1>1. start.target \in Interactive /\ start.ref \in BOOLEAN /\ start.raced \in BOOLEAN
  BY DEF RegisterStart, ShapeInv, ProvisionTypeOK
<1>2. /\ q \in RunStates /\ q.pc \in {"gate", "checkout"} /\ q.slot = NoSlot
      /\ q.target = start.target /\ q.owns /\ q.raced = start.raced
  BY <1>1 DEF RunStates, NoRun, MaybeSlot, Targets
<1>3. CASE rows[start.target].status = "pending"
  <2>1. rows' = rows
    BY <1>1, <1>3, TypeFacts DEF RegisterStart, Register, Targets
  <2> QED
    BY <1>3, <2>1 DEF RegisterStart
<1>4. CASE rows[start.target].status # "pending"
  <2>1. runs' = [runs EXCEPT ![w] = q]
    BY <1>4 DEF RegisterStart, Launch
  <2>2. rows' = [rows EXCEPT ![start.target] = Registered(@)]
    BY <1>4 DEF RegisterStart, Register
  <2> HIDE DEF q
  <2> QED
    BY <1>2, <1>4, <2>1, <2>2, PutsOne
<1> QED
  BY <1>3, <1>4

\* The claimed row has a goroutine again; it looked for an environment, or counts
\* as raced.
LEMMA RedriveMoves ==
  ASSUME ProvisionTypeOK, ShapeInv, NEW r \in Replicas, NEW w \in Runs, Redrive(r, w)
  PROVE  \E q \in RunStates : /\ Puts(w, q) /\ q.target = scans[r].target /\ q.owns /\ q.slot = NoSlot
                              /\ q.raced \/ ~test.active
                              /\ q.pc = (IF q.target \in Review THEN "register" ELSE "gate")
<1> DEFINE k == scans[r].target
           q(b) == [NoRun EXCEPT !.pc = IF k \in Review THEN "register" ELSE "gate",
                                 !.target = k, !.owns = TRUE, !.raced = b]
<1>1. k \in Targets
  BY DEF Redrive, ShapeInv
<1>2. PICK c \in BOOLEAN : CanRedrive(c) /\ runs' = [runs EXCEPT ![w] = q(c \/ k \in Review)]
  BY DEF Redrive
<1>3. (c \/ k \in Review) \in BOOLEAN
  BY Zenon
<1>4. \A b \in BOOLEAN : /\ q(b) \in RunStates /\ q(b).target = k /\ q(b).owns /\ q(b).slot = NoSlot
                         /\ q(b).raced = b /\ q(b).pc = (IF k \in Review THEN "register" ELSE "gate")
  <2> HIDE DEF k
  <2> QED
    BY <1>1 DEF RunStates, NoRun, MaybeSlot
<1>5. (c \/ k \in Review) \/ ~test.active
  BY <1>2 DEF CanRedrive
<1> HIDE DEF q
<1> QED
  BY <1>2, <1>3, <1>4, <1>5, PutsOne

\* The slot is named and everyone under way is raced, or only this goroutine
\* moves.
LEMMA SetTestStateMoves ==
  ASSUME ProvisionTypeOK, NEW w \in Runs, SetTestState(w)
  PROVE  /\ runs' \in [Runs -> RunStates]
         /\ \A v \in Runs : runs'[v].target = runs[v].target /\ runs'[v].owns = runs[v].owns
         /\ \A v \in Runs \ {w} : runs'[v].pc = runs[v].pc /\ runs'[v].slot = runs[v].slot
         /\ runs'[w].pc = "mark" /\ runs'[w].slot = NoSlot
         /\ \/ \A v \in Runs : runs'[v].pc = "idle" \/ runs'[v].raced
            \/ UNCHANGED <<test, start>> /\ \A v \in Runs : runs'[v].raced = runs[v].raced
<1> DEFINE p == runs[w]
           q == [p EXCEPT !.pc = "mark", !.result = "done", !.slot = NoSlot]
           ended == [runs EXCEPT ![w] = q]
           late(z) == [z EXCEPT !.raced = TRUE]
<1>1. p \in RunStates
  BY TypeFacts
<1>2. runs' = Race(ended) \/ (runs' = ended /\ UNCHANGED <<test, start>>)
  BY DEF SetTestState
<1>3. q \in RunStates /\ Keeps(q, p) /\ q.pc = "mark" /\ q.slot = NoSlot
  <2> HIDE DEF p
  <2> QED
    BY <1>1 DEF RunStates, MaybeSlot, Keeps
<1> HIDE DEF q
<1>4. /\ ended \in [Runs -> RunStates] /\ ended[w] = q
      /\ \A v \in Runs \ {w} : ended[v] = runs[v]
  BY <1>3, TypeFacts
<1>5. \A z \in RunStates : /\ late(z) \in RunStates /\ late(z).target = z.target /\ late(z).owns = z.owns
                           /\ late(z).raced /\ late(z).pc = z.pc /\ late(z).slot = z.slot
  BY DEF RunStates
<1>6. Race(ended) = [v \in Runs |-> IF ended[v].pc = "idle" THEN ended[v] ELSE late(ended[v])]
  BY DEF Race
<1> HIDE DEF ended, late
<1>7. CASE runs' = ended /\ UNCHANGED <<test, start>>
  BY <1>3, <1>4, <1>7 DEF Keeps
<1>8. CASE runs' = Race(ended)
  <2>1. \A v \in Runs : runs'[v] = (IF ended[v].pc = "idle" THEN ended[v] ELSE late(ended[v]))
    BY <1>6, <1>8
  <2>2. \A v \in Runs : /\ runs'[v] \in RunStates /\ runs'[v].target = ended[v].target
                        /\ runs'[v].owns = ended[v].owns /\ runs'[v].pc = ended[v].pc
                        /\ runs'[v].slot = ended[v].slot /\ (runs'[v].pc = "idle" \/ runs'[v].raced)
    BY <1>4, <1>5, <2>1
  <2>3. runs' \in [Runs -> RunStates]
    BY <1>6, <1>8, <2>2
  <2> QED
    BY <1>3, <1>4, <2>2, <2>3 DEF Keeps
<1> QED
  BY <1>2, <1>7, <1>8

\* Every step keeps the variables in their types.
LEMMA ProvisionTypeStep == ASSUME ProvisionTypeOK, ShapeInv, ProvisionNext PROVE ProvisionTypeOK'
<1>2. ASSUME NEW w \in Runs, RegisterStart(w) PROVE ProvisionTypeOK'
  <2>1. rows' \in [Targets -> RowStates]
    <3>1. start.target \in Targets
      BY <1>2 DEF RegisterStart, ShapeInv, Targets
    <3>2. rows[start.target] \in RowStates
      BY <3>1, TypeFacts
    <3>3. Registered(rows[start.target]) \in RowStates
      BY <3>2 DEF Registered, RowStates
    <3>4. rows' = rows \/ rows' = [rows EXCEPT ![start.target] = Registered(rows[start.target])]
      BY RegisterStartMoves, <1>2
    <3> QED
      BY <3>1, <3>3, <3>4, TypeFacts
  <2>2. start' = NoStart
    BY <1>2 DEF RegisterStart
  <2>3. UNCHANGED <<scans, giveback, test, leases, starts, pfaults, stray, lost>>
    BY <1>2 DEF RegisterStart, PFault, ProvisionTypeOK
  <2> QED
    BY <1>2, RegisterStartMoves, <2>1, <2>2, <2>3
    DEF Puts, ProvisionTypeOK, RowStates, RunStates, ScanStates, NoStart
<1>3. ASSUME NEW w \in Runs, RegisterReview(w) PROVE ProvisionTypeOK'
  <2>1. rows' \in [Targets -> RowStates]
    BY TypeFacts, <1>3 DEF RegisterReview, Register, Registered, RowStates
  <2>2. pfaults' \in 0..MaxFaults
    BY <1>3 DEF RegisterReview, PFault, ProvisionTypeOK
  <2>3. UNCHANGED <<scans, start, giveback, test, leases, starts, stray, lost>>
    BY <1>3 DEF RegisterReview, PFault, ProvisionTypeOK
  <2> QED
    BY <1>3, RegisterReviewMoves, <2>1, <2>2, <2>3
    DEF Puts, ProvisionTypeOK, RowStates, RunStates, ScanStates, NoStart
<1>4. ASSUME NEW w \in Runs, Gate(w) PROVE ProvisionTypeOK'
  <2>1. UNCHANGED <<rows, scans, start, giveback, test, leases, starts, pfaults, stray, lost>>
    BY <1>4 DEF Gate, PFault, ProvisionTypeOK
  <2> QED
    BY <1>4, GateMoves, <2>1 DEF Puts, ProvisionTypeOK, RowStates, RunStates, ScanStates, NoStart
<1>5. ASSUME NEW w \in Runs, Checkout(w) PROVE ProvisionTypeOK'
  <2>1. pfaults' \in 0..MaxFaults
    <3>1. pfaults' = pfaults \/ PFault
      BY <1>5 DEF Checkout
    <3> QED
      BY <3>1 DEF PFault, ProvisionTypeOK
  <2>2. lost' \subseteq Slots
    BY <1>5 DEF Checkout, ProvisionTypeOK
  <2>3. leases' \subseteq Slots
    BY <1>5 DEF Checkout, ProvisionTypeOK
  <2>4. UNCHANGED <<rows, scans, start, giveback, test, starts, stray>>
    BY <1>5 DEF Checkout, PFault, ProvisionTypeOK
  <2> QED
    BY <1>5, CheckoutMoves, <2>1, <2>2, <2>3, <2>4
    DEF Puts, ProvisionTypeOK, RowStates, RunStates, ScanStates, NoStart
<1>6. ASSUME NEW w \in Runs, Deploy(w) PROVE ProvisionTypeOK'
  <2>1. pfaults' \in 0..MaxFaults
    BY <1>6 DEF Deploy, PFault, ProvisionTypeOK
  <2>2. UNCHANGED <<rows, scans, start, giveback, test, leases, starts, stray, lost>>
    BY <1>6 DEF Deploy, PFault, ProvisionTypeOK
  <2> QED
    BY <1>6, DeployMoves, <2>1, <2>2
    DEF Puts, ProvisionTypeOK, RowStates, RunStates, ScanStates, NoStart
<1>7. ASSUME NEW w \in Runs, ReleaseCheckedOutSlot(w) PROVE ProvisionTypeOK'
  <2>1. leases' \subseteq Slots /\ lost' \subseteq Slots /\ pfaults' \in 0..MaxFaults
    <3>1. runs[w].slot \in Slots
      BY TypeFacts, <1>7 DEF ReleaseCheckedOutSlot, ShapeInv, RunStates, MaybeSlot
    <3> QED
      BY <1>7, <3>1 DEF ReleaseCheckedOutSlot, PFault, ProvisionTypeOK
  <2>2. UNCHANGED <<rows, scans, start, giveback, test, starts, stray>>
    BY <1>7 DEF ReleaseCheckedOutSlot, PFault, ProvisionTypeOK
  <2> QED
    BY <1>7, ReleaseCheckedOutSlotMoves, <2>1, <2>2
    DEF Puts, ProvisionTypeOK, RowStates, RunStates, ScanStates, NoStart
<1>8. ASSUME NEW w \in Runs, SetTestState(w) PROVE ProvisionTypeOK'
  <2>1. test' \in [active : BOOLEAN, slot : MaybeSlot]
    <3>1. runs[w].slot \in MaybeSlot
      BY TypeFacts DEF RunStates
    <3>2. test' = test \/ test' = [active |-> TRUE, slot |-> runs[w].slot]
      BY <1>8 DEF SetTestState
    <3>3. CASE test' = test
      BY <3>3 DEF ProvisionTypeOK
    <3>4. CASE test' = [active |-> TRUE, slot |-> runs[w].slot]
      BY <3>1, <3>4
    <3> QED
      BY <3>2, <3>3, <3>4
  <2>2. start' \in [pc : {"idle", "checked"}, target : Interactive \cup {NoTarget}, ref : BOOLEAN, raced : BOOLEAN]
    <3>1. start' = start \/ start' = [start EXCEPT !.raced = TRUE]
      BY <1>8 DEF SetTestState
    <3> QED
      BY <3>1 DEF ProvisionTypeOK
  <2>3. lost' \subseteq Slots /\ pfaults' \in 0..MaxFaults
    <3>1. runs[w].slot \in Slots /\ test.slot \in MaybeSlot
      BY TypeFacts, <1>8 DEF SetTestState, ShapeInv, RunStates, MaybeSlot, ProvisionTypeOK
    <3> QED
      BY <1>8, <3>1 DEF SetTestState, PFault, ProvisionTypeOK, MaybeSlot
  <2>4. UNCHANGED <<rows, scans, giveback, leases, starts, stray>>
    BY <1>8 DEF SetTestState, PFault, ProvisionTypeOK
  <2> QED
    BY <1>8, SetTestStateMoves, <2>1, <2>2, <2>3, <2>4
    DEF Puts, ProvisionTypeOK, RowStates, RunStates, ScanStates, NoStart
<1>9. ASSUME NEW w \in Runs, MarkProvision(w) PROVE ProvisionTypeOK'
  <2>1. rows' \in [Targets -> RowStates]
    <3>1. runs[w].result \in {"none", "done", "failed"}
      BY TypeFacts DEF RunStates
    <3>2. \/ rows' = rows
          \/ \E d \in {"none", "done", "failed"} :
               rows' = [rows EXCEPT ![runs[w].target].status = IF @ = "pending" THEN d ELSE @]
      BY <1>9, <3>1 DEF MarkProvision, MarkTerminal
    <3> QED
      BY <3>2, TypeFacts DEF RowStates
  <2>2. runs' \in [Runs -> RunStates]
    BY <1>9, TypeFacts DEF MarkProvision, RunStates, NoRun, MaybeSlot
  <2>3. /\ UNCHANGED <<scans, start, giveback, test, leases, starts, stray, lost>>
        /\ pfaults' \in 0..MaxFaults
    BY <1>9 DEF MarkProvision, PFault, ProvisionTypeOK
  <2> QED
    BY <2>1, <2>2, <2>3 DEF ProvisionTypeOK, RowStates, RunStates
<1>11. ASSUME NEW w \in Runs, NEW k \in Review, ReviewReady(w, k) PROVE ProvisionTypeOK'
  <2>1. starts' \in 0..MaxStarts
    BY <1>11 DEF ReviewReady, PFault, ProvisionTypeOK
  <2>2. UNCHANGED <<rows, scans, start, giveback, test, leases, pfaults, stray, lost>>
    BY <1>11 DEF ReviewReady, PFault, ProvisionTypeOK
  <2> QED
    BY <1>11, ReviewReadyMoves, <2>1, <2>2
    DEF Puts, ProvisionTypeOK, RowStates, RunStates, ScanStates, NoStart
<1>13. ASSUME NEW r \in Replicas, ClaimForRedrive(r) PROVE ProvisionTypeOK'
  <2>1. rows' \in [Targets -> RowStates]
    <3>1. rows' = rows \/ rows' = [rows EXCEPT ![scans[r].target].attempt = @ + 1]
      BY <1>13 DEF ClaimForRedrive
    <3> QED
      BY <3>1, TypeFacts DEF RowStates
  <2>2. scans' \in [Replicas -> ScanStates]
    <3> DEFINE q == [NoScan EXCEPT !.pc = "claimed", !.target = scans[r].target]
    <3>1. NoScan \in ScanStates /\ q \in ScanStates
      BY TypeFacts DEF ScanStates, NoScan
    <3>2. scans' = [scans EXCEPT ![r] = NoScan] \/ scans' = [scans EXCEPT ![r] = q]
      BY <1>13 DEF ClaimForRedrive
    <3> HIDE DEF q
    <3> QED
      BY <3>1, <3>2, TypeFacts
  <2>3. stray' \in BOOLEAN /\ UNCHANGED <<runs, start, giveback, test, leases, starts, pfaults, lost>>
    BY <1>13 DEF ClaimForRedrive, ProvisionTypeOK
  <2> QED
    BY <2>1, <2>2, <2>3 DEF ProvisionTypeOK, RowStates, ScanStates
<1>14. ASSUME NEW r \in Replicas, AlreadyProvisioned(r) PROVE ProvisionTypeOK'
  <2>1. rows' \in [Targets -> RowStates]
    <3>1. \/ rows' = rows
          \/ rows' = [rows EXCEPT ![scans[r].target].status = IF @ = "pending" THEN "done" ELSE @]
      BY <1>14 DEF AlreadyProvisioned, MarkTerminal
    <3> QED
      BY <3>1, TypeFacts DEF RowStates
  <2>2. scans' \in [Replicas -> ScanStates]
    BY <1>14, TypeFacts DEF AlreadyProvisioned, ScanStates, NoScan
  <2>3. /\ UNCHANGED <<runs, start, giveback, test, leases, starts, stray, lost>>
        /\ pfaults' \in 0..MaxFaults
    BY <1>14 DEF AlreadyProvisioned, PFault, ProvisionTypeOK
  <2> QED
    BY <2>1, <2>2, <2>3 DEF ProvisionTypeOK, RowStates, ScanStates
<1>15. ASSUME NEW r \in Replicas, NEW w \in Runs, Redrive(r, w) PROVE ProvisionTypeOK'
  <2>1. scans' \in [Replicas -> ScanStates]
    BY TypeFacts, <1>15 DEF Redrive, ScanStates, NoScan
  <2>2. pfaults' \in 0..MaxFaults
    BY <1>15 DEF Redrive, CanRedrive, PFault, ProvisionTypeOK
  <2>3. UNCHANGED <<rows, start, giveback, test, leases, starts, stray, lost>>
    BY <1>15 DEF Redrive, PFault, ProvisionTypeOK
  <2> QED
    BY <1>15, RedriveMoves, <2>1, <2>2, <2>3
    DEF Puts, ProvisionTypeOK, RowStates, RunStates, ScanStates, NoStart
<1>20. CASE ClearTestState
  <2>1. test' \in [active : BOOLEAN, slot : MaybeSlot]
    <3>1. test' = test \/ test' = [active |-> FALSE, slot |-> NoSlot]
      BY <1>20 DEF ClearTestState
    <3>2. CASE test' = test
      BY <3>2 DEF ProvisionTypeOK
    <3>3. CASE test' = [active |-> FALSE, slot |-> NoSlot]
      BY <3>3 DEF MaybeSlot
    <3> QED
      BY <3>1, <3>2, <3>3
  <2>2. giveback' = NoReturn /\ lost' \subseteq Slots /\ pfaults' \in 0..MaxFaults
    BY <1>20 DEF ClearTestState, PFault, ProvisionTypeOK
  <2>3. UNCHANGED <<rows, runs, scans, start, leases, starts, stray>>
    BY <1>20 DEF ClearTestState
  <2> QED
    BY <2>1, <2>2, <2>3 DEF ProvisionTypeOK, NoReturn, MaybeSlot
<1> USE DEF ProvisionTypeOK, NoRun, NoScan, NoStart, NoReturn, MaybeSlot, Targets
<1>1. ASSUME NEW k \in Interactive, NEW ref \in BOOLEAN, StartTestWorkflow(k, ref) PROVE ProvisionTypeOK'
  BY <1>1 DEF StartTestWorkflow, Up
<1>10. ASSUME NEW w \in Runs, CrashRun(w) PROVE ProvisionTypeOK'
  BY <1>10 DEF CrashRun, Running, PFault
<1>12. ASSUME NEW r \in Replicas, NEW k \in Targets, ListStale(r, k) PROVE ProvisionTypeOK'
  BY <1>12 DEF ListStale, Stale, Running
<1>16. ASSUME NEW r \in Replicas, FailRedrive(r) PROVE ProvisionTypeOK'
  BY <1>16 DEF FailRedrive, MarkTerminal, PFault
<1>17. ASSUME NEW r \in Replicas, CrashScan(r) PROVE ProvisionTypeOK'
  BY <1>17 DEF CrashScan, PFault
<1>18. CASE ReturnTestSlot
  BY <1>18 DEF ReturnTestSlot, Up, MatchingLease
<1>19. CASE ReturnLease
  BY <1>19 DEF ReturnLease, PFault
<1>21. ASSUME NEW a \in BOOLEAN, PostTestState(a) PROVE ProvisionTypeOK'
  BY <1>21 DEF PostTestState, PFault
<1> HIDE DEF ProvisionTypeOK, NoRun, NoScan, NoStart, NoReturn, MaybeSlot, Targets
<1> QED
  BY <1>1, <1>2, <1>3, <1>4, <1>5, <1>6, <1>7, <1>8, <1>9, <1>10, <1>11, <1>12, <1>13, <1>14,
     <1>15, <1>16, <1>17, <1>18, <1>19, <1>20, <1>21
  DEF ProvisionNext, RunStep, ScanStep

\* Every step keeps the places and the fields together.
LEMMA ShapeStep == ASSUME ProvisionTypeOK, ShapeInv, ProvisionNext PROVE ShapeInv'
<1>2. ASSUME NEW w \in Runs, RegisterStart(w) PROVE ShapeInv'
  <2>1. runs[w].pc = "idle" /\ start.pc = "checked" /\ start'.pc = "idle" /\ scans' = scans
    BY <1>2 DEF RegisterStart, Running, NoStart
  <2> QED
    BY <1>2, RegisterStartMoves, <2>1 DEF Puts, ShapeInv, Targets, Keeps
<1>3. ASSUME NEW w \in Runs, RegisterReview(w) PROVE ShapeInv'
  <2>1. runs[w].pc = "register" /\ UNCHANGED <<start, scans>>
    BY <1>3 DEF RegisterReview
  <2> QED
    BY <1>3, RegisterReviewMoves, <2>1 DEF Puts, ShapeInv, Targets, Keeps
<1>4. ASSUME NEW w \in Runs, Gate(w) PROVE ShapeInv'
  <2>1. runs[w].pc = "gate" /\ UNCHANGED <<start, scans>>
    BY <1>4 DEF Gate
  <2> QED
    BY <1>4, GateMoves, <2>1 DEF Puts, ShapeInv, Targets, Keeps
<1>5. ASSUME NEW w \in Runs, Checkout(w) PROVE ShapeInv'
  <2>1. runs[w].pc = "checkout" /\ UNCHANGED <<start, scans>>
    BY <1>5 DEF Checkout
  <2> QED
    BY <1>5, CheckoutMoves, <2>1 DEF Puts, ShapeInv, Targets, Keeps
<1>6. ASSUME NEW w \in Runs, Deploy(w) PROVE ShapeInv'
  <2>1. runs[w].pc = "deploy" /\ UNCHANGED <<start, scans>>
    BY <1>6 DEF Deploy
  <2> QED
    BY <1>6, DeployMoves, <2>1 DEF Puts, ShapeInv, Targets, Keeps
<1>7. ASSUME NEW w \in Runs, ReleaseCheckedOutSlot(w) PROVE ShapeInv'
  <2>1. runs[w].pc = "release" /\ UNCHANGED <<start, scans>>
    BY <1>7 DEF ReleaseCheckedOutSlot
  <2> QED
    BY <1>7, ReleaseCheckedOutSlotMoves, <2>1 DEF Puts, ShapeInv, Targets, Keeps
<1>8. ASSUME NEW w \in Runs, SetTestState(w) PROVE ShapeInv'
  <2>1. runs[w].pc = "state" /\ start'.pc = start.pc /\ start'.target = start.target /\ scans' = scans
    BY <1>8 DEF SetTestState, ProvisionTypeOK
  <2> QED
    BY <1>8, SetTestStateMoves, <2>1 DEF Puts, ShapeInv, Targets, Keeps
<1>11. ASSUME NEW w \in Runs, NEW k \in Review, ReviewReady(w, k) PROVE ShapeInv'
  <2>1. runs[w].pc = "idle" /\ UNCHANGED <<start, scans>>
    BY <1>11 DEF ReviewReady, Running
  <2> QED
    BY <1>11, ReviewReadyMoves, <2>1 DEF Puts, ShapeInv, Targets, Keeps
<1>13. ASSUME NEW r \in Replicas, ClaimForRedrive(r) PROVE ShapeInv'
  <2>1. \A z \in Replicas : \/ scans'[z] = scans[z] \/ scans'[z].pc = "idle"
                            \/ (scans'[z].target = scans[r].target /\ z = r)
    <3> DEFINE q == [NoScan EXCEPT !.pc = "claimed", !.target = scans[r].target]
    <3>1. NoScan.pc = "idle" /\ q.target = scans[r].target
      BY DEF NoScan
    <3>2. scans' = [scans EXCEPT ![r] = NoScan] \/ scans' = [scans EXCEPT ![r] = q]
      BY <1>13 DEF ClaimForRedrive
    <3> HIDE DEF q
    <3> QED
      BY <3>1, <3>2, TypeFacts
  <2>2. runs' = runs /\ start' = start /\ scans[r].pc = "listed"
    BY <1>13 DEF ClaimForRedrive
  <2> QED
    BY <2>1, <2>2 DEF ShapeInv
<1>15. ASSUME NEW r \in Replicas, NEW w \in Runs, Redrive(r, w) PROVE ShapeInv'
  <2>1. runs[w].pc = "idle" /\ scans[r].pc = "claimed"
    BY <1>15 DEF Redrive, Running, NoScan
  <2>2. start' = start /\ \A z \in Replicas : scans'[z] = scans[z] \/ scans'[z].pc = "idle"
    BY TypeFacts, <1>15 DEF Redrive, NoScan
  <2> QED
    BY <1>15, RedriveMoves, <2>1, <2>2 DEF Puts, ShapeInv, Targets, Keeps
<1> USE DEF ProvisionTypeOK, NoRun, NoScan, NoStart, NoReturn, MaybeSlot, Targets, ShapeInv
<1>1. ASSUME NEW k \in Interactive, NEW ref \in BOOLEAN, StartTestWorkflow(k, ref) PROVE ShapeInv'
  BY <1>1 DEF StartTestWorkflow, Up
<1>9. ASSUME NEW w \in Runs, MarkProvision(w) PROVE ShapeInv'
  BY <1>9 DEF MarkProvision, MarkTerminal, PFault
<1>10. ASSUME NEW w \in Runs, CrashRun(w) PROVE ShapeInv'
  BY <1>10 DEF CrashRun, Running, PFault
<1>12. ASSUME NEW r \in Replicas, NEW k \in Targets, ListStale(r, k) PROVE ShapeInv'
  BY <1>12 DEF ListStale, Stale, Running
<1>14. ASSUME NEW r \in Replicas, AlreadyProvisioned(r) PROVE ShapeInv'
  BY <1>14 DEF AlreadyProvisioned, MarkTerminal, PFault
<1>16. ASSUME NEW r \in Replicas, FailRedrive(r) PROVE ShapeInv'
  BY <1>16 DEF FailRedrive, MarkTerminal, PFault
<1>17. ASSUME NEW r \in Replicas, CrashScan(r) PROVE ShapeInv'
  BY <1>17 DEF CrashScan, PFault
<1>18. CASE ReturnTestSlot
  BY <1>18 DEF ReturnTestSlot, Up, MatchingLease
<1>19. CASE ReturnLease
  BY <1>19 DEF ReturnLease, PFault
<1>20. CASE ClearTestState
  BY <1>20 DEF ClearTestState, PFault
<1>21. ASSUME NEW a \in BOOLEAN, PostTestState(a) PROVE ShapeInv'
  BY <1>21 DEF PostTestState, PFault
<1> HIDE DEF ProvisionTypeOK, NoRun, NoScan, NoStart, NoReturn, MaybeSlot, Targets, ShapeInv
<1> QED
  BY <1>1, <1>2, <1>3, <1>4, <1>5, <1>6, <1>7, <1>8, <1>9, <1>10, <1>11, <1>12, <1>13, <1>14,
     <1>15, <1>16, <1>17, <1>18, <1>19, <1>20, <1>21
  DEF ProvisionNext, RunStep, ScanStep

\* Every step keeps a slot out of sight of those who were not raced.
LEMMA RaceStep == ASSUME ProvisionTypeOK, ShapeInv, RaceInv, ProvisionNext PROVE RaceInv'
<1>2. ASSUME NEW w \in Runs, RegisterStart(w) PROVE RaceInv'
  <2>1. runs[w].pc = "idle" /\ start.pc = "checked" /\ start'.pc = "idle" /\ test' = test
    BY <1>2 DEF RegisterStart, Running, NoStart
  <2> QED
    BY <1>2, RegisterStartMoves, <2>1 DEF Puts, RaceInv, ShapeInv, Keeps
<1>3. ASSUME NEW w \in Runs, RegisterReview(w) PROVE RaceInv'
  <2>1. runs[w].pc = "register" /\ UNCHANGED <<start, test>>
    BY <1>3 DEF RegisterReview
  <2> QED
    BY <1>3, RegisterReviewMoves, <2>1 DEF Puts, RaceInv, ShapeInv, Keeps
<1>4. ASSUME NEW w \in Runs, Gate(w) PROVE RaceInv'
  <2>1. runs[w].pc = "gate" /\ UNCHANGED <<start, test>>
    BY <1>4 DEF Gate
  <2> QED
    BY <1>4, GateMoves, <2>1 DEF Puts, RaceInv, ShapeInv, Keeps
<1>5. ASSUME NEW w \in Runs, Checkout(w) PROVE RaceInv'
  <2>1. runs[w].pc = "checkout" /\ UNCHANGED <<start, test>>
    BY <1>5 DEF Checkout
  <2> QED
    BY <1>5, CheckoutMoves, <2>1 DEF Puts, RaceInv, ShapeInv, Keeps
<1>6. ASSUME NEW w \in Runs, Deploy(w) PROVE RaceInv'
  <2>1. runs[w].pc = "deploy" /\ UNCHANGED <<start, test>>
    BY <1>6 DEF Deploy
  <2> QED
    BY <1>6, DeployMoves, <2>1 DEF Puts, RaceInv, ShapeInv, Keeps
<1>7. ASSUME NEW w \in Runs, ReleaseCheckedOutSlot(w) PROVE RaceInv'
  <2>1. runs[w].pc = "release" /\ UNCHANGED <<start, test>>
    BY <1>7 DEF ReleaseCheckedOutSlot
  <2> QED
    BY <1>7, ReleaseCheckedOutSlotMoves, <2>1 DEF Puts, RaceInv, ShapeInv, Keeps
<1>8. ASSUME NEW w \in Runs, SetTestState(w) PROVE RaceInv'
  <2>1. (test'.active /\ start'.pc = start.pc /\ (start'.pc = "checked" => start'.raced)) \/ UNCHANGED <<test, start>>
    BY <1>8 DEF SetTestState, ProvisionTypeOK
  <2>2. runs[w].pc = "state"
    BY <1>8 DEF SetTestState, ProvisionTypeOK
  <2> QED
    BY <1>8, SetTestStateMoves, <2>1, <2>2 DEF Puts, RaceInv, ShapeInv, Keeps
<1>11. ASSUME NEW w \in Runs, NEW k \in Review, ReviewReady(w, k) PROVE RaceInv'
  <2>1. runs[w].pc = "idle" /\ UNCHANGED <<start, test>>
    BY <1>11 DEF ReviewReady, Running
  <2> QED
    BY <1>11, ReviewReadyMoves, <2>1 DEF Puts, RaceInv, ShapeInv, Keeps
<1>15. ASSUME NEW r \in Replicas, NEW w \in Runs, Redrive(r, w) PROVE RaceInv'
  <2>1. runs[w].pc = "idle" /\ scans[r].pc = "claimed" /\ UNCHANGED <<start, test>>
    BY <1>15 DEF Redrive, Running, NoScan
  <2> QED
    BY <1>15, RedriveMoves, <2>1 DEF Puts, RaceInv, ShapeInv, Keeps
<1> USE DEF ProvisionTypeOK, NoRun, NoScan, NoStart, NoReturn, MaybeSlot, Targets, ShapeInv, RaceInv
<1>1. ASSUME NEW k \in Interactive, NEW ref \in BOOLEAN, StartTestWorkflow(k, ref) PROVE RaceInv'
  BY <1>1 DEF StartTestWorkflow, Up
<1>9. ASSUME NEW w \in Runs, MarkProvision(w) PROVE RaceInv'
  BY <1>9 DEF MarkProvision, MarkTerminal, PFault
<1>10. ASSUME NEW w \in Runs, CrashRun(w) PROVE RaceInv'
  BY <1>10 DEF CrashRun, Running, PFault
<1>12. ASSUME NEW r \in Replicas, NEW k \in Targets, ListStale(r, k) PROVE RaceInv'
  BY <1>12 DEF ListStale, Stale, Running
<1>13. ASSUME NEW r \in Replicas, ClaimForRedrive(r) PROVE RaceInv'
  BY <1>13 DEF ClaimForRedrive
<1>14. ASSUME NEW r \in Replicas, AlreadyProvisioned(r) PROVE RaceInv'
  BY <1>14 DEF AlreadyProvisioned, MarkTerminal, PFault
<1>16. ASSUME NEW r \in Replicas, FailRedrive(r) PROVE RaceInv'
  BY <1>16 DEF FailRedrive, MarkTerminal, PFault
<1>17. ASSUME NEW r \in Replicas, CrashScan(r) PROVE RaceInv'
  BY <1>17 DEF CrashScan, PFault
<1>18. CASE ReturnTestSlot
  BY <1>18 DEF ReturnTestSlot, Up, MatchingLease
<1>19. CASE ReturnLease
  BY <1>19 DEF ReturnLease, PFault
<1>20. CASE ClearTestState
  BY <1>20 DEF ClearTestState, PFault
<1>21. ASSUME NEW a \in BOOLEAN, PostTestState(a) PROVE RaceInv'
  BY <1>21 DEF PostTestState, PFault
<1> HIDE DEF ProvisionTypeOK, NoRun, NoScan, NoStart, NoReturn, MaybeSlot, Targets, ShapeInv, RaceInv
<1> QED
  BY <1>1, <1>2, <1>3, <1>4, <1>5, <1>6, <1>7, <1>8, <1>9, <1>10, <1>11, <1>12, <1>13, <1>14,
     <1>15, <1>16, <1>17, <1>18, <1>19, <1>20, <1>21
  DEF ProvisionNext, RunStep, ScanStep

\* Every step keeps the slots accounted for: the one slot a step takes from a
\* goroutine or from the test state is returned, named, or counted as lost.
LEMMA SlotStep == ASSUME ProvisionTypeOK, ShapeInv, RaceInv, SlotAccounted, ProvisionNext PROVE SlotAccounted'
<1>2. ASSUME NEW w \in Runs, RegisterStart(w) PROVE SlotAccounted'
  <2>1. runs[w].pc = "idle" /\ start.pc = "checked"
    BY <1>2 DEF RegisterStart, Running, NoStart
  <2>2. UNCHANGED <<leases, lost, test>>
    BY <1>2 DEF RegisterStart, Running, NoStart
  <2> QED
    BY <1>2, RegisterStartMoves, <2>1, <2>2
    DEF Puts, SlotAccounted, ShapeInv, RaceInv, Keeps, MaybeSlot
<1>3. ASSUME NEW w \in Runs, RegisterReview(w) PROVE SlotAccounted'
  <2>1. runs[w].pc = "register"
    BY <1>3 DEF RegisterReview
  <2>2. UNCHANGED <<leases, lost, test>>
    BY <1>3 DEF RegisterReview
  <2> QED
    BY <1>3, RegisterReviewMoves, <2>1, <2>2
    DEF Puts, SlotAccounted, ShapeInv, RaceInv, Keeps, MaybeSlot
<1>4. ASSUME NEW w \in Runs, Gate(w) PROVE SlotAccounted'
  <2>1. runs[w].pc = "gate"
    BY <1>4 DEF Gate
  <2>2. UNCHANGED <<leases, lost, test>>
    BY <1>4 DEF Gate
  <2> QED
    BY <1>4, GateMoves, <2>1, <2>2 DEF Puts, SlotAccounted, ShapeInv, RaceInv, Keeps, MaybeSlot
<1>5. ASSUME NEW w \in Runs, Checkout(w) PROVE SlotAccounted'
  <2>1. test' = test /\ runs[w].pc = "checkout"
    BY <1>5 DEF Checkout
  <2>2. runs[w].slot = NoSlot /\ NoSlot \notin Slots
    BY <2>1 DEF ShapeInv
  <2>3. PICK q \in RunStates :
          /\ Puts(w, q)
          /\ \/ q.pc = "mark" /\ q.slot = runs[w].slot /\ leases' \ lost' = leases \ lost
             \/ q.pc = "deploy" /\ q.slot \in Slots /\ lost' = lost /\ leases' = leases \cup {q.slot}
    BY <1>5, CheckoutMoves
  <2>4. ASSUME NEW s \in leases' \ lost' PROVE test'.slot = s \/ \E v \in Runs : runs'[v].slot = s
    <3>1. CASE s \in leases \ lost
      <4>1. test.slot = s \/ \E v \in Runs : runs[v].slot = s
        BY <3>1 DEF SlotAccounted
      <4>2. s \in Slots
        BY <3>1 DEF ProvisionTypeOK
      <4> QED
        BY <2>1, <2>2, <2>3, <4>1, <4>2 DEF Puts
    <3>2. CASE s \notin leases \ lost
      <4>1. s = q.slot
        BY <2>3, <2>4, <3>2
      <4> QED
        BY <2>3, <4>1 DEF Puts
    <3> QED
      BY <3>1, <3>2
  <2> QED
    BY <2>4 DEF SlotAccounted
<1>6. ASSUME NEW w \in Runs, Deploy(w) PROVE SlotAccounted'
  <2>1. runs[w].pc = "deploy"
    BY <1>6 DEF Deploy
  <2>2. UNCHANGED <<leases, lost, test>>
    BY <1>6 DEF Deploy
  <2> QED
    BY <1>6, DeployMoves, <2>1, <2>2 DEF Puts, SlotAccounted, ShapeInv, RaceInv, Keeps, MaybeSlot
<1>7. ASSUME NEW w \in Runs, ReleaseCheckedOutSlot(w) PROVE SlotAccounted'
  <2>1. runs[w].pc = "release"
    BY <1>7 DEF ReleaseCheckedOutSlot
  <2>2. leases' \ lost' \subseteq (leases \ lost) \ {runs[w].slot} /\ test' = test
    BY <1>7 DEF ReleaseCheckedOutSlot
  <2> QED
    BY <1>7, ReleaseCheckedOutSlotMoves, <2>1, <2>2
    DEF Puts, SlotAccounted, ShapeInv, RaceInv, Keeps, MaybeSlot
<1>8. ASSUME NEW w \in Runs, SetTestState(w) PROVE SlotAccounted'
  <2>1. runs[w].pc = "state"
    BY <1>8 DEF SetTestState, ProvisionTypeOK
  <2>2. leases' = leases /\ test.slot \in MaybeSlot
    BY <1>8 DEF SetTestState, ProvisionTypeOK
  <2>3. \/ /\ test'.slot = runs[w].slot
           /\ lost' = (lost \ {runs[w].slot}) \cup (IF runs[w].raced THEN {test.slot} \ {NoSlot, runs[w].slot} ELSE {})
        \/ test' = test /\ lost' = lost \cup {runs[w].slot}
    BY <1>8 DEF SetTestState
  <2> QED
    BY <1>8, SetTestStateMoves, <2>1, <2>2, <2>3
    DEF Puts, SlotAccounted, ShapeInv, RaceInv, Keeps, MaybeSlot
<1>11. ASSUME NEW w \in Runs, NEW k \in Review, ReviewReady(w, k) PROVE SlotAccounted'
  <2>1. runs[w].pc = "idle"
    BY <1>11 DEF ReviewReady, Running
  <2>2. UNCHANGED <<leases, lost, test>>
    BY <1>11 DEF ReviewReady, Running
  <2> QED
    BY <1>11, ReviewReadyMoves, <2>1, <2>2
    DEF Puts, SlotAccounted, ShapeInv, RaceInv, Keeps, MaybeSlot
<1>15. ASSUME NEW r \in Replicas, NEW w \in Runs, Redrive(r, w) PROVE SlotAccounted'
  <2>1. runs[w].pc = "idle" /\ scans[r].pc = "claimed"
    BY <1>15 DEF Redrive, Running, NoScan
  <2>2. UNCHANGED <<leases, lost, test>>
    BY <1>15 DEF Redrive, Running, NoScan
  <2> QED
    BY <1>15, RedriveMoves, <2>1, <2>2 DEF Puts, SlotAccounted, ShapeInv, RaceInv, Keeps, MaybeSlot
<1> USE DEF ProvisionTypeOK, NoRun, NoScan, NoStart, NoReturn, MaybeSlot, Targets, ShapeInv, RaceInv, SlotAccounted
<1>1. ASSUME NEW k \in Interactive, NEW ref \in BOOLEAN, StartTestWorkflow(k, ref) PROVE SlotAccounted'
  BY <1>1 DEF StartTestWorkflow, Up
<1>9. ASSUME NEW w \in Runs, MarkProvision(w) PROVE SlotAccounted'
  BY <1>9 DEF MarkProvision, MarkTerminal, PFault
<1>10. ASSUME NEW w \in Runs, CrashRun(w) PROVE SlotAccounted'
  BY <1>10 DEF CrashRun, Running, PFault
<1>12. ASSUME NEW r \in Replicas, NEW k \in Targets, ListStale(r, k) PROVE SlotAccounted'
  BY <1>12 DEF ListStale, Stale, Running
<1>13. ASSUME NEW r \in Replicas, ClaimForRedrive(r) PROVE SlotAccounted'
  BY <1>13 DEF ClaimForRedrive
<1>14. ASSUME NEW r \in Replicas, AlreadyProvisioned(r) PROVE SlotAccounted'
  BY <1>14 DEF AlreadyProvisioned, MarkTerminal, PFault
<1>16. ASSUME NEW r \in Replicas, FailRedrive(r) PROVE SlotAccounted'
  BY <1>16 DEF FailRedrive, MarkTerminal, PFault
<1>17. ASSUME NEW r \in Replicas, CrashScan(r) PROVE SlotAccounted'
  BY <1>17 DEF CrashScan, PFault
<1>18. CASE ReturnTestSlot
  BY <1>18 DEF ReturnTestSlot, Up, MatchingLease
<1>19. CASE ReturnLease
  BY <1>19 DEF ReturnLease, PFault
<1>20. CASE ClearTestState
  BY <1>20 DEF ClearTestState, PFault
<1>21. ASSUME NEW a \in BOOLEAN, PostTestState(a) PROVE SlotAccounted'
  BY <1>21 DEF PostTestState, PFault
<1> HIDE DEF ProvisionTypeOK, NoRun, NoScan, NoStart, NoReturn, MaybeSlot, Targets, ShapeInv, RaceInv, SlotAccounted
<1> QED
  BY <1>1, <1>2, <1>3, <1>4, <1>5, <1>6, <1>7, <1>8, <1>9, <1>10, <1>11, <1>12, <1>13, <1>14,
     <1>15, <1>16, <1>17, <1>18, <1>19, <1>20, <1>21
  DEF ProvisionNext, RunStep, ScanStep

\* Every step keeps one at work on a row.
LEMMA DriveStep == ASSUME ProvisionTypeOK, ShapeInv, DriveInv, ProvisionNext PROVE DriveInv'
<1>2. ASSUME NEW w \in Runs, RegisterStart(w) PROVE DriveInv'
  <2>1. /\ runs[w].pc = "idle" /\ start.pc = "checked" /\ UNCHANGED <<scans, stray>>
        /\ start.target \in Interactive
    BY <1>2 DEF RegisterStart, Running, ShapeInv
  <2>2. CASE runs' = runs /\ rows' = rows
    BY <2>1, <2>2 DEF DriveInv, Driven
  <2>3. CASE stray
    BY <2>1, <2>3 DEF DriveInv
  <2>4. CASE ~stray /\ ~(runs' = runs /\ rows' = rows)
    <3> DEFINE t == start.target
    <3>1. PICK q \in RunStates : Puts(w, q) /\ q.target = t
      BY <1>2, <2>4, RegisterStartMoves
    <3>2. rows[t].status # "pending" /\ rows' = [rows EXCEPT ![t] = Registered(@)]
      BY <1>2, <2>4, RegisterStartMoves
    <3>3. /\ rows'[t].status = "pending" /\ rows'[t].gen = rows[t].gen + 1
          /\ \A k \in Interactive \ {t} : rows'[k] = rows[k]
      BY <2>1, <3>2, TypeFacts DEF Registered, Targets
    <3>4. ~Driven(t)
      BY <2>1, <2>4, <3>2 DEF DriveInv
    <3>5. rows[t].gen \in Nat /\ \A r \in Replicas : scans[r].gen \in Nat
      BY <2>1, TypeFacts DEF RowStates, ScanStates, Targets
    <3> HIDE DEF t
    <3>6. \A k \in Interactive \ {t} : Driven(k)' <=> Driven(k)
      BY <2>1, <3>1 DEF Driven, Puts, ShapeInv
    <3> QED
      BY <2>1, <2>4, <3>1, <3>3, <3>4, <3>5, <3>6 DEF DriveInv, Driven, Puts, ShapeInv
  <2> QED
    BY <2>2, <2>3, <2>4
<1>4. ASSUME NEW w \in Runs, Gate(w) PROVE DriveInv'
  <2>1. UNCHANGED <<rows, scans, stray>>
    BY <1>4 DEF Gate
  <2> QED
    BY <1>4, GateMoves, <2>1 DEF Puts, DriveInv, Driven, Keeps
<1>5. ASSUME NEW w \in Runs, Checkout(w) PROVE DriveInv'
  <2>1. UNCHANGED <<rows, scans, stray>>
    BY <1>5 DEF Checkout
  <2> QED
    BY <1>5, CheckoutMoves, <2>1 DEF Puts, DriveInv, Driven, Keeps
<1>6. ASSUME NEW w \in Runs, Deploy(w) PROVE DriveInv'
  <2>1. UNCHANGED <<rows, scans, stray>>
    BY <1>6 DEF Deploy
  <2> QED
    BY <1>6, DeployMoves, <2>1 DEF Puts, DriveInv, Driven, Keeps
<1>7. ASSUME NEW w \in Runs, ReleaseCheckedOutSlot(w) PROVE DriveInv'
  <2>1. UNCHANGED <<rows, scans, stray>>
    BY <1>7 DEF ReleaseCheckedOutSlot
  <2> QED
    BY <1>7, ReleaseCheckedOutSlotMoves, <2>1 DEF Puts, DriveInv, Driven, Keeps
<1>8. ASSUME NEW w \in Runs, SetTestState(w) PROVE DriveInv'
  <2>1. UNCHANGED <<rows, scans, stray>>
    BY <1>8 DEF SetTestState, ProvisionTypeOK
  <2> QED
    BY <1>8, SetTestStateMoves, <2>1 DEF Puts, DriveInv, Driven, Keeps
<1>11. ASSUME NEW w \in Runs, NEW k \in Review, ReviewReady(w, k) PROVE DriveInv'
  <2>1. runs[w].pc = "idle" /\ UNCHANGED <<rows, scans, stray>>
    BY <1>11 DEF ReviewReady, Running
  <2> QED
    BY <1>11, ReviewReadyMoves, <2>1 DEF Puts, DriveInv, Driven, Keeps
<1>13. ASSUME NEW r \in Replicas, ClaimForRedrive(r) PROVE DriveInv'
  <2> DEFINE t == scans[r].target
  <2>1. runs' = runs /\ scans[r].pc = "listed" /\ t \in Targets
    BY <1>13 DEF ClaimForRedrive, ShapeInv
  <2>2. scans[r] \in ScanStates /\ rows[t] \in RowStates
    BY <2>1, TypeFacts
  <2>3. CASE ~(rows[t].status = "pending" /\ rows[t].attempt = scans[r].attempt)
    <3>1. UNCHANGED <<rows, stray>> /\ scans' = [scans EXCEPT ![r] = NoScan]
      BY <1>13, <2>3 DEF ClaimForRedrive
    <3>2. \A z \in Replicas : scans'[z] = scans[z] \/ scans'[z].pc = "idle"
      BY <3>1, TypeFacts DEF NoScan
    <3> QED
      BY <2>1, <3>1, <3>2 DEF DriveInv, Driven
  <2>4. CASE rows[t].status = "pending" /\ rows[t].attempt = scans[r].attempt
    <3> DEFINE q == [NoScan EXCEPT !.pc = "claimed", !.target = t]
    <3>1. q.pc = "claimed" /\ q.target = t
      BY DEF NoScan
    <3>2. /\ rows' = [rows EXCEPT ![t].attempt = @ + 1] /\ scans' = [scans EXCEPT ![r] = q]
          /\ stray' = (stray \/ rows[t].gen # scans[r].gen)
      BY <1>13, <2>4 DEF ClaimForRedrive
    <3> HIDE DEF q
    <3>3. scans'[r] = q /\ \A z \in Replicas \ {r} : scans'[z] = scans[z]
      BY <3>2, TypeFacts
    <3>4. /\ rows'[t].attempt = rows[t].attempt + 1 /\ rows'[t].gen = rows[t].gen
          /\ rows'[t].status = rows[t].status
          /\ \A k \in Targets \ {t} : rows'[k] = rows[k]
      BY <2>1, <3>2, TypeFacts DEF RowStates
    <3>5. CASE stray'
      BY <3>5 DEF DriveInv
    <3>6. CASE ~stray'
      <4>1. ~stray /\ rows[t].gen = scans[r].gen
        BY <3>2, <3>6
      <4>2. t \in Interactive => ~Driven(t)
        BY <2>1, <2>4, <4>1 DEF DriveInv
      <4>3. \A z \in Replicas : scans[z].gen \in Nat /\ scans[z].attempt \in Nat
        BY TypeFacts DEF ScanStates
      <4>4. rows[t].attempt \in Nat /\ rows[t].gen \in Nat
        BY <2>2 DEF RowStates
      <4> HIDE DEF t
      <4>5. \A k \in Interactive \ {t} : Driven(k)' <=> Driven(k)
        BY <2>1, <3>1, <3>3 DEF Driven
      <4>6. ASSUME NEW k \in Interactive \ {t}
            PROVE  /\ rows'[k] = rows[k]
                   /\ \A z \in Replicas : scans'[z].target = k => scans'[z] = scans[z]
        BY <3>1, <3>3, <3>4 DEF Targets
      <4>7. \A z \in Replicas : scans'[z].pc = "listed" => z # r
        BY <3>1, <3>3
      <4> QED
        BY <2>1, <2>4, <3>1, <3>3, <3>4, <4>1, <4>2, <4>3, <4>4, <4>5, <4>6, <4>7
        DEF DriveInv, Driven
    <3> QED
      BY <3>5, <3>6
  <2> QED
    BY <2>3, <2>4
<1> USE DEF ProvisionTypeOK, NoRun, NoScan, NoStart, NoReturn, MaybeSlot, Targets, ShapeInv, DriveInv, Driven
<1>1. ASSUME NEW k \in Interactive, NEW ref \in BOOLEAN, StartTestWorkflow(k, ref) PROVE DriveInv'
  BY <1>1 DEF StartTestWorkflow, Up
<1>3. ASSUME NEW w \in Runs, RegisterReview(w) PROVE DriveInv'
  BY <1>3 DEF RegisterReview, Register, Registered, PFault
<1>9. ASSUME NEW w \in Runs, MarkProvision(w) PROVE DriveInv'
  BY <1>9 DEF MarkProvision, MarkTerminal, PFault
<1>10. ASSUME NEW w \in Runs, CrashRun(w) PROVE DriveInv'
  BY <1>10 DEF CrashRun, Running, PFault
<1>12. ASSUME NEW r \in Replicas, NEW k \in Targets, ListStale(r, k) PROVE DriveInv'
  BY <1>12 DEF ListStale, Stale, Running
<1>14. ASSUME NEW r \in Replicas, AlreadyProvisioned(r) PROVE DriveInv'
  BY <1>14 DEF AlreadyProvisioned, MarkTerminal, PFault
<1>15. ASSUME NEW r \in Replicas, NEW w \in Runs, Redrive(r, w) PROVE DriveInv'
  BY <1>15 DEF Redrive, CanRedrive, Running, PFault
<1>16. ASSUME NEW r \in Replicas, FailRedrive(r) PROVE DriveInv'
  BY <1>16 DEF FailRedrive, MarkTerminal, PFault
<1>17. ASSUME NEW r \in Replicas, CrashScan(r) PROVE DriveInv'
  BY <1>17 DEF CrashScan, PFault
<1>18. CASE ReturnTestSlot
  BY <1>18 DEF ReturnTestSlot, Up, MatchingLease
<1>19. CASE ReturnLease
  BY <1>19 DEF ReturnLease, PFault
<1>20. CASE ClearTestState
  BY <1>20 DEF ClearTestState, PFault
<1>21. ASSUME NEW a \in BOOLEAN, PostTestState(a) PROVE DriveInv'
  BY <1>21 DEF PostTestState, PFault
<1> HIDE DEF ProvisionTypeOK, NoRun, NoScan, NoStart, NoReturn, MaybeSlot, Targets, ShapeInv, DriveInv, Driven
<1> QED
  BY <1>1, <1>2, <1>3, <1>4, <1>5, <1>6, <1>7, <1>8, <1>9, <1>10, <1>11, <1>12, <1>13, <1>14,
     <1>15, <1>16, <1>17, <1>18, <1>19, <1>20, <1>21
  DEF ProvisionNext, RunStep, ScanStep

\* The invariant holds before the first start.
LEMMA ProvisionStart ==
  ProvisionInit => ProvisionTypeOK /\ ShapeInv /\ RaceInv /\ SlotAccounted /\ DriveInv
<1> SUFFICES ASSUME ProvisionInit PROVE ProvisionTypeOK /\ ShapeInv /\ RaceInv /\ SlotAccounted /\ DriveInv
  OBVIOUS
<1> USE DEF ProvisionInit, NoRun, NoScan, NoStart, NoReturn, MaybeSlot
<1>1. ProvisionTypeOK
  <2>1. test \in [active : BOOLEAN, slot : MaybeSlot]
    BY Zenon
  <2>2. leases \subseteq Slots /\ lost \subseteq Slots /\ starts \in 0..MaxStarts /\ pfaults \in 0..MaxFaults
    OBVIOUS
  <2>3. rows \in [Targets -> RowStates] /\ runs \in [Runs -> RunStates] /\ scans \in [Replicas -> ScanStates]
    BY DEF RowStates, RunStates, ScanStates
  <2> QED
    BY <2>1, <2>2, <2>3 DEF ProvisionTypeOK, RowStates, RunStates, ScanStates
<1>2. ShapeInv /\ RaceInv /\ SlotAccounted
  BY DEF ShapeInv, RaceInv, SlotAccounted
<1>3. DriveInv
  BY DEF DriveInv, Driven, Targets
<1> QED
  BY <1>1, <1>2, <1>3

\* One goroutine a target, as a count.
LEMMA DriveOne == DriveInv => OneRunPerTarget
<1> SUFFICES ASSUME DriveInv, ~stray, NEW k \in Interactive
             PROVE  Cardinality({w \in Runs : runs[w].target = k}) <= 1
  BY DEF OneRunPerTarget
<1> DEFINE S == {w \in Runs : runs[w].target = k}
<1> SUFFICES Cardinality(S) <= 1
  OBVIOUS
<1>1. \A v, w \in S : v = w
  BY DEF DriveInv
<1> HIDE DEF S
<1>2. CASE S = {}
  BY <1>2, FS_EmptySet
<1>3. CASE S # {}
  <2>1. PICK v \in S : TRUE
    BY <1>3
  <2>2. S = {v}
    BY <1>1, <2>1
  <2>3. Cardinality({v}) = 1
    BY FS_Singleton
  <2> QED
    BY <2>2, <2>3
<1> QED
  BY <1>2, <1>3

\* A target has at most one interactive goroutine and no leased slot is lost
\* silently, for any targets, pool, replicas, number of goroutines, starts and
\* faults (Register, ClaimForRedrive, redrivePendingTestProvision and
\* provisionTestSlotForSession).
THEOREM ProvisionIsSafe == ProvisionSpec => []ProvisionSafe
<1> DEFINE Inv == ProvisionTypeOK /\ ShapeInv /\ RaceInv /\ SlotAccounted /\ DriveInv
<1>1. ProvisionInit => Inv
  BY ProvisionStart
<1>2. Inv /\ [ProvisionNext]_pvars => Inv'
  <2> SUFFICES ASSUME Inv, [ProvisionNext]_pvars PROVE Inv'
    OBVIOUS
  <2>1. CASE ProvisionNext
    BY <2>1, ProvisionTypeStep, ShapeStep, RaceStep, SlotStep, DriveStep
  <2>2. CASE UNCHANGED pvars
    BY <2>2 DEF pvars, ProvisionTypeOK, ShapeInv, RaceInv, SlotAccounted, DriveInv, Driven
  <2> QED
    BY <2>1, <2>2
<1>3. Inv => ProvisionSafe
  BY DriveOne DEF ProvisionSafe
<1> QED
  BY <1>1, <1>2, <1>3, PTL DEF ProvisionSpec
=============================================================================
