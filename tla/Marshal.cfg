CONSTANTS
  a = a
  b = b
  Letter = {a, b}
  Signature <- MCSignature
  Length = {0, 1, 5, 9}
  MaxLength = 8
SPECIFICATION Spec
INVARIANTS
  ServerSeesArguments
  CallerSeesResults
  CallerSeesFailure
CHECK_DEADLOCK FALSE
