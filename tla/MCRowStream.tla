---------------------------- MODULE MCRowStream ----------------------------
(***************************************************************************)
(* The sidebar: how its rows arrive, and how they are nested.  The parts   *)
(* do not share state: a behaviour runs one of them and leaves the other   *)
(* where it starts.                                                        *)
(***************************************************************************)
EXTENDS RowStream, SidebarTree

CONSTANTS s1, s2
SessionSet == {s1, s2}

VARIABLE part

SidebarInit == part \in {"stream", "nesting"} /\ StreamInit /\ NestingInit

SidebarNext ==
  \/ part = "stream" /\ StreamNext /\ UNCHANGED <<part, nvars>>
  \/ part = "nesting" /\ NestingNext /\ UNCHANGED <<part, streamVars>>

\* The fairness of StreamSpec and NestingFairness, where theirs is the part that runs.
SidebarFairness ==
  /\ WF_streamVars(part = "stream" /\ \E s \in Sessions : (Commit(s) \/ MarkDeleted(s)
                                                         \/ DeleteReturns(s) \/ DeleteFails(s)))
  /\ WF_streamVars(part = "stream" /\ (ListSessions \/ ApplySnapshot \/ (snap.step = "due" /\ StampCursor)))
  /\ WF_streamVars(part = "stream" /\ (Open \/ Subscribe)) /\ WF_streamVars(part = "stream" /\ DrainPage)
  /\ WF_streamVars(part = "stream" /\ Heartbeat) /\ WF_streamVars(part = "stream" /\ EmitRow)
  /\ \A m \in Movers : WF_nvars(part = "nesting" /\ MoveStep(m))

SidebarSpec == SidebarInit /\ [][SidebarNext]_<<part, streamVars, nvars>> /\ SidebarFairness

\* An open sidebar comes to show the table (handlers_sessions.go:652), and every move
\* is answered, also in a cycle (manager.go:1064).
SidebarSettles == Converges /\ MovesEnd
=============================================================================
