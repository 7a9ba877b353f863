CONSTANTS
  NONE = NONE
  NProcs = 2
  Level1 = 2
  Level2 = 2
  NFrames = 9
  NDisk = 1
  MinFree = 1
  BATCH = 2
  set_replacement = 3
  UseTlb = FALSE
  TlbReach = 2
  ProgramFrames = 1
  BLANK = BLANK
  PROGRAM = PROGRAM
  FREE = FREE
  MaxCalls = 3
SPECIFICATION MCSpec
INVARIANT TagsInvertTables
PROPERTY ImplementsProcessMemory
CHECK_DEADLOCK FALSE
