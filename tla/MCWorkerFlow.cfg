SPECIFICATION FairSpec
CONSTANTS
  MAX_NUM_WQ = 4
  MSGS_PER_PAIR = 2
  NumNodes = 1
  BatchSize = 2
  POLL_LIMIT = 1
  WARMUP = 1
  NidMod = 2
  UninitLen = {"OTHER", "BEEF", "DEAD"}
  MaxPackets = 4
  MaxOther = 1
INVARIANTS
  RecvSlotsFreed
  LbufOwned
  BoundedLossAtShutdown
  OnlyMisreadMissed
PROPERTIES
  ArrivalAnswered
  ImplementsService
