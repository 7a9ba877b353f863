CONSTANTS
  MAX_PROCESS = 3
  RUN_TIME = 10
  TIME_QUANTUM = 2
  MaxLimit = 3
  Schedulers = {1, 2, 3}
  InTime = TRUE
  NULL = NULL
SPECIFICATION FairSpec
INVARIANTS OneHome BurstsAgree CpuKept WaitersReturn
PROPERTIES NoEarlyPreemption DispatchOrder BurstChargedInFull TimeRunsOut
CHECK_DEADLOCK FALSE
