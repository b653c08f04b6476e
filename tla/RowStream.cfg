SPECIFICATION SidebarSpec
CONSTANTS
  s1 = s1
  s2 = s2
  Sessions <- SessionSet
  MaxWrites = 2
  MaxFaults = 2
  RowPageLimit = 1
  ChanCap = 1
  MaxSessions = 3
  Movers = {m1, m2}
  MaxMoves = 3
  MaxDeletes = 1
CHECK_DEADLOCK FALSE
INVARIANTS StreamSafe NestingSafe SidebarSafe
PROPERTIES NoRegress SidebarSettles
