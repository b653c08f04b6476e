-------------------------- MODULE MCEventPersister --------------------------
(* Events of one session, or one event each of two sessions that share a   *)
(* single worker slot.                                                     *)
EXTENDS EventPersister

\* Two good events, and the two bad kinds one after the other.
MCStreams == {<<"ok", "ok">>, <<"garbled", "rejected">>}

MCSessionOf == [e \in 1..N |-> IF e = 1 THEN "s1" ELSE CHOOSE s \in Session : Session = {s} \/ s # "s1"]
=============================================================================
