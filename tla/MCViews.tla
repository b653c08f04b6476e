------------------------------- MODULE MCViews -------------------------------
(* Bounds of the behaviours, one reader each.  The readers that keep no    *)
(* state of their own (rows, pages) see the longest ledgers: two turns     *)
(* with a question and a task, or the chain task, wake, task, wake.        *)
EXTENDS SessionViews, TLC

Bounds(reader, turns, tasks, gens, asks, notices, events) ==
  [reader |-> reader, turns |-> turns, tasks |-> tasks, gens |-> gens, asks |-> asks,
   notices |-> notices, events |-> events]

MCScopes ==
  {Bounds("rows", 2, 1, 1, 1, 0, 10), Bounds("rows", 1, 2, 2, 0, 0, 11),
   Bounds("rows", 2, 0, 0, 1, 1, 9),
   Bounds("stream", 1, 1, 1, 0, 0, 7), Bounds("stream", 1, 0, 0, 1, 1, 7),
   Bounds("stream", 2, 0, 0, 0, 0, 6),
   Bounds("pages", 2, 1, 1, 1, 0, 10), Bounds("pages", 1, 2, 1, 0, 0, 12),
   Bounds("cache", 1, 1, 1, 0, 0, 9), Bounds("cache", 1, 0, 0, 1, 1, 9),
   Bounds("activity", 2, 0, 0, 0, 0, 6), Bounds("activity", 1, 0, 0, 1, 0, 8),
   Bounds("activity", 1, 1, 1, 0, 0, 7), Bounds("count", 2, 0, 0, 0, 0, 6)}

JobSymmetry == Permutations(Jobs)
=============================================================================
