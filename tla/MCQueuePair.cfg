SPECIFICATION FairSpec
CONSTANTS
  MAX_NUM_WQ = 2
  Requests = {r1, r2}
  Tags = {t1}
  NoValue = NoValue
INVARIANTS
  IInv
  LocalTestsExact
PROPERTIES
  ImplementsFifo
  CheckReturns
