SPECIFICATION FairSpec
CONSTANTS
  Length = {0, 1, 3}
  HeadSize = 2
  BufferSize = 3
  MaxFrames = 3
CHECK_DEADLOCK FALSE
INVARIANTS
  NothingHeldBack
PROPERTIES
  EveryDatagramComesOut
  ImplementsFifo
