SPECIFICATION FairSpec
CONSTANTS
  c1 = c1
  t1 = t1
  t2 = t2
  Client = {c1}
  Thread = {t1, t2}
  Home <- OneProcess
  MaxXid = 2
  MaxFaults = 1
  Style = {"sync", "async"}
  Timed = {TRUE, FALSE}
  Asked <- AnyThenTwo
  FreshPointer = {"garbage"}
  FirstXid <- FromZero
  BitsPerBlock = 2
CHECK_DEADLOCK FALSE
INVARIANTS
  TypeOK
  RunsAtMostOnce
  CalledBackOnce
  AnswersTellTheTruth
  ReturnMeansAnswered
  TimerHeldUntilAnswer
PROPERTIES
  ImplementsService
  EventuallyAnswered
