CONSTANTS
  Procs = {p1}
  Files = {f1}
  Stores = {s1}
  Passwords = {w1}
  Commands = {"add", "reindex", "recrypt"}
  MaxSalt = 1
  MaxGiven = 5
  MaxFaults = 1
  None = None
  Torn = Torn
CHECK_DEADLOCK FALSE
SPECIFICATION Spec
INVARIANT ReplacedAtomically
