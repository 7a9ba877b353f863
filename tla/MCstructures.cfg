CONSTANTS
  Addresses = {n1, n2, n3}
  NIL = NIL
  Items = {f1, f2}
  NONE = NONE
  WithSearch = TRUE
  MaxDeficit = 2
  MaxCount = 4
  MaxDepth = 1
  ls = ls
  cd = cd
  NOTFOUND = NOTFOUND
SPECIFICATION MCSpec
INVARIANTS NothingFreedInList WellFormed
PROPERTIES ImplementsTornQueue ImplementsPriorityQueue ImplementsSequence ImplementsDictionary
CHECK_DEADLOCK FALSE
