SPECIFICATION ServicesSpec
CONSTANTS
  Replica = {r1, r2}
  AttemptCap = 3
  MaxFaults = 2
  Pollers = {h1, h2}
  Clients = {c1}
  SlotPollers = {h2}
  Scope <- ServiceScope
  DebounceCycles = 0
  MaxFlips = 2
  MaxLosses = 2
  Avatars = {a1, a2}
  Defaults = {a1}
  Admins = {q1, q2}
  NoAvatar = none
  MaxDraws = 3
  MaxEdits = 2
  MaxMishaps = 1
  t1 = t1
  t2 = t2
  w1 = w1
  Turns = {t1, t2, w1}
  WakeTurns = {w1}
  Keys = {1, 2, 3, 4, 5}
  TurnOf <- SmallTurnOf
  Writers = {x1, x2}
CHECK_DEADLOCK FALSE
INVARIANTS WakeSafe HealthSafe DeckSafe NumbersSafe
PROPERTIES WakeSettles HealthFollows NumbersGrow
