CONSTANTS
  NP = 2
  Tag = {t1}
  Val = {v0, v1}
  None = None
  Qubit = {q1}
  MaxCalls = 2
SPECIFICATION FairSpec
INVARIANT TypeOK
INVARIANT FifoDelivery
INVARIANT PostedRankWaits
INVARIANT OneGatePerCall
PROPERTY LowReturnsEntangled
PROPERTY MatchedCallsReturn
PROPERTY MatchedEprReturns
CHECK_DEADLOCK FALSE
