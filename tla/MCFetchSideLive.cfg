CONSTANTS
  Lines = {0, 1}
  SetSize = 1
  Way = 1
  AddrSpace = 2
  LineSize = 1
  Targets = {0}
  RetireSize = 1
  NoLine = NoLine
  NoReq = NoReq
  NoInst = NoInst
SPECIFICATION FairSpec
PROPERTY InstsKeepExecuting
