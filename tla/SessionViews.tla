---------------------------- MODULE SessionViews ----------------------------
(***************************************************************************)
(* The read models of one session over the same ledger: the transcript     *)
(* rows and the browser that follows them, the pages of a turn and their   *)
(* cache, the activity summary of the sidebar.  They do not depend on each *)
(* other: a behaviour follows the one its scope names.                     *)
(***************************************************************************)
EXTENDS TranscriptView, TurnPages, ActivityFold

(* A batch of events is stored, its rows are refreshed and its deltas are  *)
(* emitted.                                                                *)
Persist ==
  /\ Refresh
  /\ ActivityOnLedger
  /\ UNCHANGED pageVars

Browse   == BrowserNext /\ UNCHANGED <<pageVars, activityVars>>
Detail   == PagesNext /\ UNCHANGED <<viewVars, activityVars>>
Sidebar  == ActivityNext /\ UNCHANGED <<viewVars, pageVars>>

Init == LedgerInit /\ ViewInit /\ PagesInit /\ ActivityInit
Next == Persist \/ Browse \/ Detail \/ Sidebar
vars == <<ledgerVars, viewVars, pageVars, activityVars>>
Spec == Init /\ [][Next]_vars

-----------------------------------------------------------------------------
(* What the session shows and keeps beside its ledger agrees with it: the  *)
(* transcript is whole, a page served from the cache is the page of now,   *)
(* the message count is reached (transcript_projection.go,                 *)
(* turn_activity_cache.go:145, chat_activity.go:263).                      *)
ViewsSafe == TranscriptWhole /\ HitIsFresh /\ CountSettles
=============================================================================
