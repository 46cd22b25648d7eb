SPECIFICATION Spec
CONSTANTS
  Timer = {t1, t2}
  Worker = {w1, w2}
CHECK_DEADLOCK FALSE
INVARIANT
  NobodyCompetes
