CONSTANTS
  c1 = c1
  c2 = c2
  f1 = f1
  f2 = f2
  Conns <- TwoConns
  Files <- TwoFiles
  Behaviors <- AllBehaviors
  Spaces <- Both
  Chunks = 2
  MaxOpen = 2
  MaxAborts = 1
  MaxKills = 1
SPECIFICATION FairSpec
INVARIANTS BooksRight RowsHaveFiles UploadIsWhole
PROPERTIES NoRollbackAfterCommit RequestsAnswered
CHECK_DEADLOCK FALSE
