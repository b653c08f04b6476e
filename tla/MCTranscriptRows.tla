-------------------------- MODULE MCTranscriptRows --------------------------
(* Event 1 is the wake boundary the backend writes for turn a, 2 and 3 are *)
(* flood events of turn b, 4 is a turn-less event; the last three come     *)
(* over the bus.                                                           *)
EXTENDS TranscriptRows

MCTurnOf == [e \in 1..N |-> IF e = 1 THEN "a" ELSE "b"]
=============================================================================
