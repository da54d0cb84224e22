SPECIFICATION FairSpec
CONSTANTS
  MAX_NUM_WQ = 3
  MSGS_PER_PAIR = 1
  NumNodes = 2
  BatchSize = 2
  POLL_LIMIT = 1
  WARMUP = 1
  NidMod = 2
  UninitLen = {"OTHER", "BEEF", "DEAD"}
  MaxPackets = 5
  MaxOther = 1
INVARIANTS
  WorkerInv
  BatchInBounds
  RepliesInOrder
  SlotOwnedOnce
PROPERTY ClientDoneStops
