CONSTANTS
  a = a
  b = b
  m = m
  Files = {a, b}
  Names = {m}
  Name <- Colliding
  Workers = {w1, w2}
  Keys = {k1, k2, k3, k4, k5, k6, k7}
  NVols = 2
  MaxBatches = 1
  MaxFaults = 0
  CloseFails = FALSE
  None = None
  Free = Free
  Stale = Stale
SPECIFICATION Spec
INVARIANT NoneLost
CHECK_DEADLOCK FALSE
