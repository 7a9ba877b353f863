CONSTANTS
  a = a
  b = b
  c = c
  d = d
  Images <- MCImages
  inode_table <- MCInodes
  BLOCK = 4
  ROW = 2
  FINISH = 12
  LIST_MAX = 10
  ListMax = 3
  Colliding <- MCColliding
  EMPTY = EMPTY
  NAME = NAME
  DATA = DATA
  STRANGE = STRANGE
SPECIFICATION MCSpec
INVARIANT ReadAsWritten
PROPERTY ReadEnds
CHECK_DEADLOCK FALSE
