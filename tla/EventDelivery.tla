--------------------------- MODULE EventDelivery ---------------------------
(***************************************************************************)
(* What the event persister promises, without saying how: a published,     *)
(* well-formed event is stored in the ledger, then projected, then made    *)
(* visible to readers by a wake; it is acknowledged only when visible; and *)
(* every one is stored in the end unless the persister gave up on it where *)
(* an operator can see it.  Malformed events are rejected and leave no     *)
(* trace.                                                                  *)
(***************************************************************************)
EXTENDS Naturals

CONSTANTS Event

VARIABLES
    stage,      \* per event: 0 offered, 1 stored, 2 projected, 3 visible
    rejected,   \* events refused for good
    done,       \* acknowledged events
    gaveUp      \* events whose repair was reported as failed

abstract == <<stage, rejected, done, gaveUp>>

Stages == 0..3

Init ==
    /\ stage = [e \in Event |-> 0]
    /\ rejected = {} /\ done = {} /\ gaveUp = {}

\* Some events move on by one stage, together.
Advance ==
    /\ stage' \in [Event -> Stages]
    /\ stage' # stage
    /\ \A e \in Event : stage'[e] \in {stage[e], stage[e] + 1}
    /\ \A e \in Event : stage'[e] # stage[e] => e \notin rejected
    /\ UNCHANGED <<rejected, done, gaveUp>>

Reject(e) ==
    /\ stage[e] = 0 /\ e \notin done
    /\ rejected' = rejected \union {e}
    /\ UNCHANGED <<stage, done, gaveUp>>

Acknowledge ==
    /\ done' \in SUBSET Event
    /\ done \subseteq done' /\ done # done'
    /\ \A e \in done' \ done : stage[e] = 3
    /\ UNCHANGED <<stage, rejected, gaveUp>>

GiveUp ==
    /\ gaveUp' \in SUBSET Event
    /\ gaveUp \subseteq gaveUp' /\ gaveUp # gaveUp'
    /\ UNCHANGED <<stage, rejected, done>>

Next == Advance \/ Acknowledge \/ GiveUp \/ \E e \in Event : Reject(e)

Settled(e) == stage[e] > 0 \/ e \in rejected \/ e \in gaveUp

\* What may never happen, and what must.  A settled event stays settled, so of
\* finitely many each is settled in the end when at some time all are.
Safety == Init /\ [][Next]_abstract

Spec == Safety /\ <>(\A e \in Event : Settled(e))
============================================================================
