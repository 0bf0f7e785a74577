CONSTANTS
  Lines = {0, 1, 3}
  SetSize = 3
  Way = 1
  RetireSize = 2
  StallDelay = 1
  NoLine = NoLine
  NoReq = NoReq
  NoInst = NoInst
SPECIFICATION Spec
INVARIANTS TypeOK NoRequestLost OneOutstanding LookedUpNextTick
PROPERTIES FlushLeavesAtMostOne ImplementsPort
