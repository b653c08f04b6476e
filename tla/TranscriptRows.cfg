SPECIFICATION FairSpec
CONSTANTS
    N = 4
    Replica = {r1, r2}
    Turn = {"a", "b"}
    TurnOf <- MCTurnOf
    Turnless = {4}
    Flood = {2, 3}
    Forest = {1}
    Answer = {}
    Backend = {1}
    MaxFaults = 1
CHECK_DEADLOCK FALSE
INVARIANTS RowsSafe
PROPERTIES RowsNeverRegress BusEventsSettle
