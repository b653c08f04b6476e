------------------------ MODULE MCBackgroundTaskWake ------------------------
(* BackgroundTaskWake for TLC. *)
EXTENDS BackgroundTaskWake
=============================================================================
