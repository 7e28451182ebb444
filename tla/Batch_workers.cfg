CONSTANTS
  a = a
  b = b
  m = m
  Files = {a, b}
  Names = {m}
  Name <- Colliding
  Workers = {w1, w2}
  Keys = {k1, k2, k3, k4, k5, k6, k7}
  NVols = 2
  MaxBatches = 3
  MaxFaults = 1
  CloseFails = FALSE
  None = None
  Free = Free
  Stale = Stale
SPECIFICATION FairSpec
INVARIANTS TypeOK NothingLost CountsAddUp SuccessDelivers
PROPERTY BatchReturns
CHECK_DEADLOCK FALSE
