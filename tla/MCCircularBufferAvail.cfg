SPECIFICATION Spec
CONSTANTS
  numEntries = 4
  Increments = {1}
  MaxMsgs = 12
INVARIANT AvailSlotsExact
CHECK_DEADLOCK FALSE
