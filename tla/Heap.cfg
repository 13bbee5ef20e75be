SPECIFICATION CarefulSpec
CONSTANTS
  PageWords = 12
  HeapPages = {1, 2, 4}
  Requests = {1, 8, 10}
  MaxLive = 3
INVARIANTS
  PoolIsSane
  ContentsStay
CHECK_DEADLOCK FALSE
