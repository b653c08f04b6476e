SPECIFICATION Spec
CONSTANTS
  t1 = t1
  t2 = t2
  None = None
  Turns <- TurnSet
  Asks <- AskSet
  Stops <- StopSet
  MaxMishaps = 2
  MaxDeliver = 2
  MaxControlDeliver = 2
CHECK_DEADLOCK FALSE
INVARIANTS TurnsSafe
PROPERTIES TurnStepsSafe InterruptResolves
