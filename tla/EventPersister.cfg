SPECIFICATION FairSpec
CONSTANTS
    N = 2
    Session = {"s1"}
    Streams <- MCStreams
    SessionOf <- MCSessionOf
    Replica = {r1, r2}
    Late = {r2}
    Workers = 1
    MaxBatch = 2
    MaxDeliver = 2
    MaxFaults = 1
CHECK_DEADLOCK FALSE
INVARIANTS PersisterSafe
PROPERTIES DeliversEvents
