SPECIFICATION FairSpec
CONSTANTS
  MaxThreads = 3
  UIntMod = 65536
  PacketSizes = {64, 100}
  MaxOptions = 3
  MaxPackets = 1
  CreateMayFail = TRUE
  AllocMayFail = TRUE
INVARIANTS
  TypeOK
  AllRegisteredBeforeRunning
  RegisterInRange
  ExitAfterWorkers
PROPERTIES
  ProcessEnds
  PacketsAnswered
CHECK_DEADLOCK FALSE
