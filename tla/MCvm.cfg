CONSTANTS
  MAX_PROCESS = 3
  RUN_TIME = 8
  TIME_QUANTUM = 2
  MaxLimit = 2
  Schedulers = {1, 2, 3}
  InTime = TRUE
  NULL = NULL
SPECIFICATION MCSpec
INVARIANTS AccessesInTime SchedulingKept
PROPERTY TimeUsedUp
CHECK_DEADLOCK FALSE
