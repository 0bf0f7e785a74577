CONSTANTS
  Lines = {0, 2}
  SetSize = 2
  Way = 1
  RetireSize = 1
  StallDelay = 1
  NoLine = NoLine
  NoReq = NoReq
  NoInst = NoInst
SPECIFICATION FairSpec
PROPERTY AccessEnds
