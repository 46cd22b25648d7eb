SPECIFICATION FairSpec
CONSTANTS
  a = a
  b = b
  c = c
  t1 = t1
  t2 = t2
  Multicast = Multicast
  NoAddress = NoAddress
  NoPkg = NoPkg
  Node = {a, b}
  Address = {b, Multicast}
  Thread = {t1}
  Home <- OneSender
  Worker = {w1, w2}
  MaxId = 2
  MaxSent = 2
  FirstIds = {0}
  BitsPerBlock = 1
  IdMod = 16
  IdBoundary = 1
  Window = 2
  SizeMax = 3
  RetryLimit = 1
  FreshRetry = {0, 1}
  PostSendComplete = TRUE
  HasBadSend = FALSE
  MaxFaults = 0
  MaxCancels = 0
CHECK_DEADLOCK FALSE
INVARIANTS
  WindowAccounting
  SuccessMeansDelivered
  TrackedTimerAlive
  NoCallbackOnReleasedTimer
  CompletedAtMostOnce
PROPERTIES
  EventuallyReported
  TimersReturned
