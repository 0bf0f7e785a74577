CONSTANTS
  Lines = {0, 1}
  SetSize = 2
  Way = 1
  AddrSpace = 4
  LineSize = 2
  Targets = {0, 3}
  RetireSize = 9
  NoLine = NoLine
  NoReq = NoReq
  NoInst = NoInst
SPECIFICATION Spec
INVARIANTS TypeOK FetchInStep NothingExecutedBehind RedirectIsComing AnswersInOrder StallHasRest NoInstReused RedirectResets
