SPECIFICATION Spec
CONSTANTS
  MAX_NUM_WQ = 3
  MSGS_PER_PAIR = 1
  NumNodes = 2
  BatchSize = 2
  POLL_LIMIT = 1
  WARMUP = 1
  NidMod = 2
  UninitLen = {"OTHER", "BEEF", "DEAD"}
  MaxPackets = 3
  MaxOther = 1
INVARIANT PacketsCounted
