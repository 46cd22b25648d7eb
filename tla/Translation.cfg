SPECIFICATION FairSpec
CONSTANTS
  Block = {b1, b2, b3}
  Arrival = {a1}
  Closes = 2
CHECK_DEADLOCK FALSE

  
PROPERTIES
  EventuallySettled
