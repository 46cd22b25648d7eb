SPECIFICATION FairSpec
CONSTANTS
  Timer = {t1, t2, t3}
  Worker = {w1, w2, w3}
CHECK_DEADLOCK FALSE
INVARIANTS
  ReleasedOnce
  NobodyHoldsFreed
PROPERTIES
  EventuallyReleased
