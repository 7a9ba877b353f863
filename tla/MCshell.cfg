CONSTANTS
  prog = prog
  typo = typo
  a = a
  b = b
  BAR = BAR
  CD = CD
  SPACE = SPACE
  TAB = TAB
  QUIT = QUIT
  NUL = NUL
  NONE = NONE
  Keys = {prog, BAR, CD, SPACE, TAB, QUIT}
  MaxFds = 10
  MaxKeys = 3
  PipeSize = 3
  StickyEof = FALSE
SPECIFICATION MCSpec
INVARIANTS DescriptorsKept HistoryIsRecent ShownIsRun PipeDelivers
PROPERTIES FailureStops Repetition
CHECK_DEADLOCK FALSE
