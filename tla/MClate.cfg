CONSTANTS
  MAX_PROCESS = 2
  RUN_TIME = 2
  TIME_QUANTUM = 1
  MaxLimit = 2
  Schedulers = {1, 3}
  InTime = FALSE
  NULL = NULL
SPECIFICATION Spec
INVARIANTS TypeOK LoopWithinQueue NoCrash
CHECK_DEADLOCK FALSE
