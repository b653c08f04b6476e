---------------------------- MODULE TurnNumbers ----------------------------
(***************************************************************************)
(* The numbers of a session's turns: /sessions/{id}/turns/{n}.  A trigger  *)
(* on session_events numbers a turn with its first event, in the           *)
(* transaction that stores the event; the persister of each replica and    *)
(* the handlers store events at the same time.  The database is PostgreSQL *)
(* at READ COMMITTED: every statement of the trigger sees what has been    *)
(* committed when it starts, and a row it has written stays locked to the  *)
(* end of its transaction.                                                 *)
(***************************************************************************)
EXTENDS Integers, FiniteSets

CONSTANTS
  Turns,      \* turn ids of one session
  WakeTurns,  \* those that start with turn_bgtask-
  Keys,       \* order keys: one per event, the primary key of session_events
  TurnOf,     \* the turn of the event with that order key
  Writers     \* connections that store events

ASSUME KeyAssumption == Keys \subseteq Nat \ {0}
ASSUME TurnAssumption ==
  IsFiniteSet(Turns) /\ WakeTurns \subseteq Turns /\ TurnOf \in [Keys -> Turns]

VARIABLES
  events,   \* the committed events, by order key
  number,   \* session_turns.turn_number; 0: the turn has no row
  firstKey, \* session_turns.first_order_key
  counter,  \* session_turn_counters.next_turn_number
  tx,       \* what each connection is doing
  lost      \* history: turns of which an event burnt a number

tvars == <<events, number, firstKey, counter, tx, lost>>

TxPhases == {"idle", "stored", "found", "counting", "counted", "burnt", "numbered", "lowered", "done"}
NoTx == [pc |-> "idle", key |-> 0, got |-> 0]

KeysOf(t, L) == {k \in L : TurnOf[k] = t}
IsEarliest(k, S) == k \in S /\ \A j \in S : k <= j
Numbered(t) == number[t] # 0

\* The migrations 0087 to 0094 meet a events and number its turns, wakes included, in the
\* order of their first keys; the counter continues after the last.
BackfillKeys ==
  \A t \in Turns : IF KeysOf(t, events) = {} THEN firstKey[t] = 0 ELSE IsEarliest(firstKey[t], KeysOf(t, events))
BackfillNumbers ==
  /\ \A t \in Turns : number[t] # 0 <=> KeysOf(t, events) # {}
  /\ \A n \in 1 .. counter - 1 : \E t \in Turns : number[t] = n
  /\ \A t, u \in Turns : Numbered(t) /\ Numbered(u) => (number[t] < number[u] <=> firstKey[t] < firstKey[u])
PrimeCounter == \A t \in Turns : number[t] < counter

TurnsInit ==
  /\ events \in SUBSET Keys
  /\ firstKey \in [Turns -> Keys \cup {0}] /\ BackfillKeys
  /\ number \in [Turns -> 0 .. Cardinality(Turns)]
  /\ counter \in 1 .. Cardinality(Turns) + 1 /\ BackfillNumbers /\ PrimeCounter
  /\ tx = [w \in Writers |-> NoTx]
  /\ lost = {}

Turn(w) == TurnOf[tx[w].key]
Continue(w, pc) == tx' = [tx EXCEPT ![w].pc = pc]
CountsNow(w) == tx[w].pc \in {"counted", "burnt", "numbered"}

\* Upsert.  The row of a key that is being stored by another blocks until that one ends; a
\* key that is already there is overwritten, which fires no trigger.
StoreEvent(w, k) ==
  /\ tx[w].pc = "idle" /\ k \notin events
  /\ \A v \in Writers : tx[v].pc # "idle" => tx[v].key # k
  /\ tx' = [tx EXCEPT ![w] = [pc |-> "stored", key |-> k, got |-> 0]]
  /\ UNCHANGED <<events, number, firstKey, counter, lost>>

\* Is the turn a wake, and if not, has it a row?
LookUpTurn(w) ==
  /\ tx[w].pc = "stored"
  /\ Continue(w, IF Turn(w) \in WakeTurns THEN "done" ELSE IF Numbered(Turn(w)) THEN "found" ELSE "counting")
  /\ UNCHANGED <<events, number, firstKey, counter, lost>>

\* The turn has a row: lower its first key.  The row is locked by a transaction that did so.
LowerFirstKey_Unlocked(w) ==
  /\ tx[w].pc = "found"
  /\ Continue(w, IF tx[w].key < firstKey[Turn(w)] THEN "lowered" ELSE "done")
  /\ UNCHANGED <<events, number, firstKey, counter, lost>>
LowerFirstKey(w) ==
  /\ tx[w].pc = "found"
  /\ \A v \in Writers : tx[v].pc = "lowered" => Turn(v) # Turn(w)
  /\ Continue(w, IF tx[w].key < firstKey[Turn(w)] THEN "lowered" ELSE "done")
  /\ UNCHANGED <<events, number, firstKey, counter, lost>>

\* Take a number.  The counter row is locked by a transaction that did so.
TakeNumber(w) ==
  /\ tx[w].pc = "counting"
  /\ \A v \in Writers : ~CountsNow(v)
  /\ tx' = [tx EXCEPT ![w].pc = "counted", ![w].got = counter]
  /\ UNCHANGED <<events, number, firstKey, counter, lost>>

\* What the insert of the turn's row meets: the row of another transaction (the number is
\* used up all the same); a row with that number, whose exception takes the count back; or
\* neither.
RowThere(w) == Numbered(Turn(w))
NumberThere(w) == \E t \in Turns : Numbered(t) /\ number[t] = tx[w].got

NumberTurn(w) ==
  /\ tx[w].pc = "counted"
  /\ Continue(w, IF RowThere(w) THEN "burnt" ELSE IF NumberThere(w) THEN "done" ELSE "numbered")
  /\ UNCHANGED <<events, number, firstKey, counter, lost>>

NewNumber_Renumbers(w) ==
  IF tx[w].pc \in {"numbered", "burnt"} THEN [number EXCEPT ![Turn(w)] = tx[w].got] ELSE number
NewNumber(w) == IF tx[w].pc = "numbered" THEN [number EXCEPT ![Turn(w)] = tx[w].got] ELSE number
NewFirstKey(w) ==
  IF tx[w].pc \in {"numbered", "lowered"} THEN [firstKey EXCEPT ![Turn(w)] = tx[w].key] ELSE firstKey
NewCounter(w) == IF tx[w].pc \in {"numbered", "burnt"} THEN tx[w].got + 1 ELSE counter

Commit(w) ==
  /\ tx[w].pc \in {"done", "lowered", "numbered", "burnt"}
  /\ events' = events \cup {tx[w].key}
  /\ number' = NewNumber(w) /\ firstKey' = NewFirstKey(w) /\ counter' = NewCounter(w)
  /\ lost' = IF tx[w].pc = "burnt" THEN lost \cup {Turn(w)} ELSE lost
  /\ tx' = [tx EXCEPT ![w] = NoTx]

\* The connection or the replica is gone; the event is delivered again.
Rollback(w) ==
  /\ tx[w].pc # "idle"
  /\ tx' = [tx EXCEPT ![w] = NoTx]
  /\ UNCHANGED <<events, number, firstKey, counter, lost>>

TurnsNext ==
  \E w \in Writers :
    \/ \E k \in Keys : StoreEvent(w, k)
    \/ LookUpTurn(w) \/ LowerFirstKey(w) \/ TakeNumber(w) \/ NumberTurn(w)
    \/ Commit(w) \/ Rollback(w)

TurnsSpec == TurnsInit /\ [][TurnsNext]_tvars
-----------------------------------------------------------------------------
\* Types: a counter above every number given out.
TurnsTypeOK ==
  /\ events \subseteq Keys
  /\ counter \in Nat \ {0}
  /\ number \in [Turns -> Nat] /\ \A t \in Turns : number[t] < counter
  /\ firstKey \in [Turns -> Keys \cup {0}]
  /\ tx \in [Writers -> [pc : TxPhases, key : Keys \cup {0}, got : Nat]]
  /\ lost \subseteq Turns

\* ResolveTurnNumber leads to one turn: no two turns of a session have the same number,
\* whichever writers store their first events at the same time.
OneTurnPerNumber ==
  \A t, u \in Turns : Numbered(t) /\ number[t] = number[u] => t = u

\* "every persisted turn is numbered regardless of write origin": the exception handler of
\* the allocator, which would leave a turn without a number, is never needed.
PersistedIsNumbered ==
  \A k \in events : TurnOf[k] \notin WakeTurns => Numbered(TurnOf[k])

\* first_order_key is the earliest of the turn's stored events, unless two first events of
\* the turn were stored at the same time: the later one uses up a number and lowers nothing.
FirstKeyIsEarliest ==
  \A t \in Turns \ (WakeTurns \cup lost) : Numbered(t) => IsEarliest(firstKey[t], KeysOf(t, events))

\* A deep link keeps its turn: a number once given never changes, a new one is larger than
\* every number given before it, and no wake gets one.
NumbersOnlyGrow ==
  \A t \in Turns : number'[t] # number[t] =>
     /\ ~Numbered(t) /\ t \notin WakeTurns
     /\ \A u \in Turns : number[u] < number'[t]
NumbersGrow == [][NumbersOnlyGrow]_tvars

\* The numbering of turns by concurrent writers: one turn a number, a number for every
\* stored turn, the earliest key of every turn.
NumbersSafe == TurnsTypeOK /\ OneTurnPerNumber /\ PersistedIsNumbered /\ FirstKeyIsEarliest
=============================================================================
