SPECIFICATION CarefulSpec
CONSTANTS
  Programs = {p1, p2}
  Bytes = {a, nl}
  Newline = nl
  Unwritten = Unwritten
  MaxIO = 2
  MaxPos = 3
  MaxBlock = 4
INVARIANTS
  CapacityBounded
PROPERTIES
  PromiseSpec
CHECK_DEADLOCK FALSE
