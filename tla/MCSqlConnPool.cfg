CONSTANTS
  u1 = u1
  u2 = u2
  u3 = u3
  k1 = k1
  k2 = k2
  Users <- ThreeUsers
  Conns <- TwoConns
  Refreshes = TRUE
SPECIFICATION PoolFairSpec
INVARIANTS ConnsConserved SemCounts ClosedWhenDone
PROPERTIES WaitersServed ShutdownCompletes
CHECK_DEADLOCK FALSE
