----------------------------- MODULE MCServices -----------------------------
(***************************************************************************)
(* Four services beside a session's turns: its scheduled wakes, the        *)
(* provider banner, its avatars and the numbers of its turns.  They do not *)
(* share state: a behaviour runs one of them and leaves the others where   *)
(* they start.                                                             *)
(***************************************************************************)
EXTENDS ScheduledWakeup, ProviderHealth, AvatarDeck, TurnNumbers

CONSTANTS t1, t2, w1,
  SlotPollers   \* the pollers of a validation slot; the session is one of production

ServiceScope ==
  [x \in Pollers \union Clients |-> IF x \in SlotPollers THEN "slot" ELSE "default"]

\* Three events of one turn, one of another and one of a wake, between them in the ledger.
SmallTurnOf == [k \in Keys |-> CASE k \in {1, 3, 5} -> t1 [] k = 2 -> t2 [] OTHER -> w1]

VARIABLE part

InitPart ==
  /\ part \in {"wake", "banner", "avatars", "numbers"}
  /\ Init /\ HealthInit /\ DeckInit /\ TurnsInit
  /\ part # "avatars" => \A a \in Avatars : asset[a] = "agent"
  /\ part # "numbers" => events = {}

NextPart ==
  \/ part = "wake" /\ Next /\ UNCHANGED <<part, hvars, dvars, tvars>>
  \/ part = "banner" /\ HealthNext /\ UNCHANGED <<part, vars, dvars, tvars>>
  \/ part = "avatars" /\ DeckNext /\ UNCHANGED <<part, vars, hvars, tvars>>
  \/ part = "numbers" /\ TurnsNext /\ UNCHANGED <<part, vars, hvars, dvars>>

\* Fairness and HealthFairness, where theirs is the part that runs.
PartFairness ==
  /\ WF_vars(part = "wake" /\ BecomeDue) /\ WF_vars(part = "wake" /\ LeaseExpires)
  /\ \A r \in Replica :
       /\ WF_vars(part = "wake" /\ FireStep(r))
       /\ WF_vars(part = "wake" /\ ClaimDue(r)) /\ WF_vars(part = "wake" /\ FailExceeded(r))
  /\ \A r \in Pollers : WF_hvars(part = "banner" /\ PollStep(r))

ServicesSpec == InitPart /\ [][NextPart]_<<part, vars, hvars, dvars, tvars>> /\ PartFairness
=============================================================================
