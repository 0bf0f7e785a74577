SPECIFICATION FairMemorySpec
CONSTANTS
  Requesters = {"icache", "dcache"}
  Writers = {"dcache"}
  UartDelay = 1
  DramQueueSize = 2
INVARIANTS
  MemoryTypeOK
  OneAnswerEach
  DeviceReqsConserved
PROPERTIES
  EveryRequestAnswered
