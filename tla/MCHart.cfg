SPECIFICATION Spec
CONSTANTS
  SInts = {1}
  MInts = {7}
  PcBits = {0}
  CsrInsts <- MCCsrInsts
  MaxWrites = 3
  Opcodes32 <- Opcodes
INVARIANTS
  HartTypeOK
  MmuStateFresh
  NoStaleField
  DecodeMatches
  ExpansionsAgree
PROPERTIES
  TrapReturns
