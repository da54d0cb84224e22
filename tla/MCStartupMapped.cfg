SPECIFICATION Spec
CONSTANTS
  MaxThreads = 3
  UIntMod = 65536
  PacketSizes = {64, 100}
  MaxOptions = 3
  MaxPackets = 1
  CreateMayFail = FALSE
  AllocMayFail = FALSE
INVARIANT SuccessMeansMapped
CHECK_DEADLOCK FALSE
