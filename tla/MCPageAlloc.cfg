SPECIFICATION Spec
CONSTANTS
  PageSize = 16
  WordBits = 3
  TotalPages = 10
  MemStart = 32
  MemMap <- MapWithHole
  StackPages = 2
  MaxCount = 3
INVARIANTS
  NoFreeBelowLastAlloc
  BitmapAccounts
PROPERTIES
  PromiseSpec
CHECK_DEADLOCK FALSE
