SPECIFICATION Spec
CONSTANTS
  IntMod = 8
  WARMUP = 1
  BatchSize = 2
  MSGS_PER_PAIR = 4
  MAX_NUM_WQ = 2
  MaxPackets = 9
INVARIANTS
  WholeOnceStored
  NoLostWakeup
  BuffersInTurn
  SkipsOnlyAtOverflow
CHECK_DEADLOCK FALSE
