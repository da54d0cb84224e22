SPECIFICATION Spec
CONSTANTS
  numEntries = 4
  Increments = {1, 2, 3, 4}
  MaxMsgs = 12
INVARIANTS
  SenseInv
  IncTailAssertion
  NothingOverwritten
PROPERTY SendersViewExact
CHECK_DEADLOCK FALSE
