CONSTANTS
  MAX_PROCESS = 2
  RUN_TIME = 3
  TIME_QUANTUM = 2
  MaxLimit = 2
  Schedulers = {3}
  InTime = TRUE
  NULL = NULL
SPECIFICATION FairSpec
PROPERTIES Terminates
CHECK_DEADLOCK FALSE
