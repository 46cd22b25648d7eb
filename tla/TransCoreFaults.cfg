SPECIFICATION Spec
CONSTANTS
  a = a
  b = b
  c = c
  t1 = t1
  t2 = t2
  Multicast = Multicast
  NoAddress = NoAddress
  NoPkg = NoPkg
  Node = {a, b}
  Address = {a, b}
  Thread = {t1, t2}
  Home <- TwoSenders
  Worker = {w1}
  MaxId = 1
  MaxSent = 1
  FirstIds = {0}
  BitsPerBlock = 2
  IdMod = 16
  IdBoundary = 1
  Window = 1
  SizeMax = 3
  RetryLimit = 1
  FreshRetry = {0}
  PostSendComplete = TRUE
  HasBadSend = TRUE
  MaxFaults = 1
  MaxCancels = 1
SYMMETRY Exchange
CHECK_DEADLOCK FALSE
INVARIANTS
  TypeOK
  DeliveredAtMostOnce
  SuccessOnlyIfTaken
PROPERTIES
  ImplementsService
