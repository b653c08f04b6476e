SPECIFICATION FairWakesSpec
CONSTANTS
    Replica = {r1, r2}
    MaxGeneration = 2
    AttemptCap = 2
    MaxWakeFaults = 1
CHECK_DEADLOCK FALSE
INVARIANTS WakesSafe
PROPERTIES IdleSessionDrains
