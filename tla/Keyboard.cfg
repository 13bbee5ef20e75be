SPECIFICATION Spec
CONSTANTS
  BUFSZ = 3
  MaxKeys = 4
  Used = {"RCTRL", "LALT", "NUM_DOT", "DEL"}
  MaxWire = 3
INVARIANTS
  FifoUntilOverrun
  StateIsDown
PROPERTY WaitEnds
CHECK_DEADLOCK FALSE
