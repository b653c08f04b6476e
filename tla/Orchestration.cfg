SPECIFICATION Spec
CONSTANTS
  a = a
  b = b
  w1 = w1
  w2 = w2
  Phases <- PhaseSet
  Order <- PlanOrder
  Deps <- PlanDeps
  Integration = TRUE
  Forwarded <- MainPhases
  Workers <- WorkerSet
  MaxSpokes = 2
  MaxRegs = 1
  MaxFaults = 1
CHECK_DEADLOCK FALSE
INVARIANTS RunSafe
PROPERTIES ReadyDispatched
