SPECIFICATION FairSpec
CONSTANTS
    Replica = {r1, r2}
    Ordinal = {a1, a2}
    AttemptCap = 2
    MaxClaims = 3
    MaxFaults = 1
CHECK_DEADLOCK FALSE
INVARIANTS LaunchSafe
PROPERTIES RowStaysTerminal LaunchEnds
