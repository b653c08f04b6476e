--------------------------- MODULE MCOrchestration ---------------------------
EXTENDS Orchestration, TLC
CONSTANTS a, b, w1, w2
PhaseSet == {a, b}
PlanOrder == <<a, b>>
\* b depends on a
PlanDeps == (a :> {}) @@ (b :> {a})
MainPhases == {a}
WorkerSet == {w1, w2}
=============================================================================
