-------------------------- MODULE MCPendingLaunch --------------------------
(* PendingLaunch for TLC: two replicas, two attachments. *)
EXTENDS PendingLaunch, TLC

Symmetry == Permutations(Replica) \union Permutations(Ordinal)
============================================================================
