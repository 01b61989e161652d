CONSTANTS
  f1 = f1
  f2 = f2
  f3 = f3
  Fds <- ThreeFds
  TimeOut = 2
  MaxTime = 4
  MaxGen = 2
SPECIFICATION TimerSpec
INVARIANTS HeapSound SleepsUntilFirstTimer
PROPERTIES ClosesOnlyIdle
SYMMETRY TimerSymmetry
CHECK_DEADLOCK FALSE
