CONSTANTS
  c1 = c1
  c2 = c2
  f1 = f1
  f2 = f2
  Conns <- TwoConns
  Files <- OneFile
  Behaviors <- Changes
  Spaces <- PublicOnly
  Chunks = 2
  MaxOpen = 2
  MaxAborts = 1
  MaxKills = 0
SPECIFICATION Spec
PROPERTIES AbortKeepsTables
CHECK_DEADLOCK FALSE
