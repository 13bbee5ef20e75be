SPECIFICATION IntrLiveSpec
CONSTANTS
  MaxRaise = 2
  MaxFrames = 2
INVARIANTS
  NothingStuck
  SectionIsAtomic
PROPERTIES
  ByteIsRead
CHECK_DEADLOCK FALSE
