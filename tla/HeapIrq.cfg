SPECIFICATION IrqSpec
CONSTANTS
  PageWords = 12
  HeapPages = {1, 2}
  Requests = {1, 5}
  MaxLive = 3
INVARIANTS
  NoPanic
CHECK_DEADLOCK FALSE
