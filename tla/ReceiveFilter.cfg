SPECIFICATION Spec
CONSTANTS
  BitsPerBlock = 4
  Threads = 2
  MaxId = 6
  IdBoundary = 16
  MaxRestarts = 1
CHECK_DEADLOCK FALSE
INVARIANTS
  MarksInside
