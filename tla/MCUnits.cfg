SPECIFICATION Spec
CONSTANTS
  Capacity = 3
  FifoBytes = {0, 1}
  FifoLength = 3
  Bytes = {0}
  TriggerLevels = {1, 3}
  ModemLines = {"RI"}
  GhrSize = 3
  HistBits = 1
  IdxBits = 3
  RasSize = 3
  InstSizes = {2}
  TableBits = 1
  BitSize = 0
  MetaSlots = 3
  InFlight = 2
  Types = {"COND", "PUSH", "IND_PUSH", "POP"}
  Pcs = {0}
  MaxFaults = 1
  TimeBits = 2
INVARIANTS
  TypeOK
  IrqFollowsState
  ReceiverConsistent
  MetaIntact
  IrqLines
PROPERTIES
  FifoIsQueue
  ThreNotLost
  HistoryRestored
  TimerLevel
