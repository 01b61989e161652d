CONSTANTS
  w1 = w1
  w2 = w2
  w3 = w3
  Workers <- ThreeWorkers
  MaxTasks = 3
SPECIFICATION ServerFairSpec
INVARIANTS PoolSound
PROPERTIES TasksRun ShutdownCompletes
CHECK_DEADLOCK FALSE
