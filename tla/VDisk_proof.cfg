CONSTANTS
  Files = {f1}
  Stores = {s1, s2}
  Passwords = {w1}
  At <- FirstStore
  Owner = w1
  MaxLen = 2
  MaxWrites = 2
  MaxFaults = 1
  CacheCap = 2
  Ahead = 1
  IdleTimeout = TRUE
  None = None
  Wiped = Wiped
  Torn = Torn
SPECIFICATION Spec
INVARIANTS TypeOK ReadsFresh AcknowledgedIsKept LockedHoldsNothing Relied CacheInv

