CONSTANTS
  Producers = {p1, p2}
  Consumers = {c1, c2, c3}
  Blocks = 2
  FileBlocks = 5
  NoThread = NoThread
SPECIFICATION FairSpec
INVARIANTS InOrder DrainedAtExit
PROPERTIES ImplementsStream Completes
CHECK_DEADLOCK FALSE
