SPECIFICATION Spec
CONSTANTS
  Interactive = {t1}
  Review = {v1}
  Slots = {s1, s2}
  Runs = {w1, w2}
  Replicas = {r1, r2}
  NoSlot = none
  NoTarget = none
  MaxStarts = 2
  MaxFaults = 2
  Deciders = {d1, d2}
  Branches = {b1}
  Window = 2
  MaxRows = 4
  MaxSilent = 1
  MaxErrors = 1
CHECK_DEADLOCK FALSE
INVARIANTS ProvisionSafe ApprovalsSafe
PROPERTIES PendingEnds
