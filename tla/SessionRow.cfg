SPECIFICATION SessionSpec
CONSTANTS
  MaxFailures = 1
  MaxSteps = 2
CHECK_DEADLOCK FALSE
INVARIANTS RowSafe
PROPERTIES RowStepsSafe LoopsFinish
