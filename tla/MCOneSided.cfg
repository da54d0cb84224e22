SPECIFICATION FairSpec
CONSTANTS
  totalNodeCount = 3
  threadsPerClient = 2
  ServThreads = 2
  numEntries = 2
  WINDOW = 2
  MaxMsgs = 3
  MaxShape = 4
INVARIANTS
  MessagesInRegion
  ChannelsFifo
PROPERTY MessagesDelivered
CHECK_DEADLOCK FALSE
