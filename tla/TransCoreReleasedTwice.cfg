SPECIFICATION Spec
CONSTANTS
  a = a
  b = b
  c = c
  t1 = t1
  t2 = t2
  Multicast = Multicast
  NoAddress = NoAddress
  NoPkg = NoPkg
  Node = {a, b}
  Address = {b}
  Thread = {t1}
  Home <- OneSender
  Worker = {w1}
  MaxId = 1
  MaxSent = 1
  FirstIds = {0}
  BitsPerBlock = 1
  IdMod = 16
  IdBoundary = 1
  Window = 1
  SizeMax = 3
  RetryLimit = 1
  FreshRetry = {0}
  PostSendComplete = TRUE
  HasBadSend = TRUE
  MaxFaults = 0
  MaxCancels = 0
CHECK_DEADLOCK FALSE
INVARIANTS
  TimerReleasedOnce
