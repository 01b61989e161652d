CONSTANTS
  w1 = w1
  w2 = w2
  Writers <- TwoWriters
  N = 4
  MaxLogs = 5
  MaxKills = 2
SYMMETRY WritersAlike
SPECIFICATION Spec
INVARIANTS PagesNotShared ListsSound RecordsKept
CHECK_DEADLOCK FALSE
