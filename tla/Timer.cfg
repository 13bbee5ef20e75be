SPECIFICATION LiveSpec
CONSTANTS
  Events = {e1, e2, e3}
  Funcs = {f, g}
  Delays = {1, 2, 3}
INVARIANTS
  DeltasAddUp
  NoneOverdue
PROPERTIES
  ClockSpec
  AlarmsGoOff
