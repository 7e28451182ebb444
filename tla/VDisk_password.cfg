CONSTANTS
  Files = {f1}
  Stores = {s1}
  Passwords = {w1, w2}
  At <- FirstStore
  Owner = w1
  MaxLen = 1
  MaxWrites = 0
  MaxFaults = 0
  CacheCap = 1
  Ahead = 0
  IdleTimeout = TRUE
  None = None
  Wiped = Wiped
  Torn = Torn
SPECIFICATION Spec
INVARIANT RefusedIsWrong
