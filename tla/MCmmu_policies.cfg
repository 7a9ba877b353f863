CONSTANTS
  NONE = NONE
  NProcs = 2
  Level1 = 1
  Level2 = 3
  NFrames = 4
  NDisk = 6
  MinFree = 2
  BATCH = 2
  set_replacement = 3
  UseTlb = FALSE
  TlbReach = 1
  ProgramFrames = 0
  BLANK = BLANK
  PROGRAM = PROGRAM
  FREE = FREE
  MaxCalls = 4
  Tried = {1, 2, 3, 4, 5, 6, 7, 8, 9}
  Shared = 8
  Scarce = 9
SPECIFICATION MCSpec
INVARIANTS NoWordLost FramesCounted TlbShared TablesPrivate FrameWhenNeeded
PROPERTY RecentlyUsedStay
CHECK_DEADLOCK FALSE
