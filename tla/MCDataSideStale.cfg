CONSTANTS
  Lines = {0, 1}
  SetSize = 2
  Way = 1
  RetireSize = 4
  StallDelay = 1
  NoLine = NoLine
  NoReq = NoReq
  NoInst = NoInst
SPECIFICATION Spec
INVARIANT RetiredAfterAnswer
