SPECIFICATION FairSpec
CONSTANTS
  LimitThread = 2
  g1 = g1
  h1 = h1
  Group = {g1}
  Stranger = {h1}
  Id <- SameId
  Size <- SameSize
  SliceData = 2
  MayFail <- SecondFails
  Copies <- FirstTwice
  NoOne = NoOne
CHECK_DEADLOCK FALSE
INVARIANTS
  ReassembledExactly
  ReportMeansTaken
  ReportedOnce
  NodesAlive
PROPERTIES
  EventuallyTold
  EventuallyHandedUp
  ImplementsService
