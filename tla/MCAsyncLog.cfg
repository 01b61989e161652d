CONSTANTS
  t1 = t1
  t2 = t2
  t3 = t3
  Threads <- ThreeThreads
  Capacity = 2
  MaxLines = 5
SPECIFICATION FairSpec
INVARIANTS LinesSound
PROPERTIES LinesWritten ShutDownEnds
CHECK_DEADLOCK FALSE
