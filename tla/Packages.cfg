SPECIFICATION Spec
CONSTANTS
  Word = 2
  PackageSize = {1, 2}
  Reserve = {0, 7}
  Length = {0, 1, 2, 5}
  MaxBlocks = 3
CHECK_DEADLOCK FALSE
INVARIANTS
  InsideBuffer
  SlotsStay
  AnalysisGivesBack
