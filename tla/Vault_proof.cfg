CONSTANTS
  Procs = {p1, p2}
  Files = {f1}
  Stores = {s1, s2}
  Passwords = {w1, w2}
  Commands = {"init", "add", "reindex", "rekey", "recrypt", "mount"}
  MaxSalt = 2
  MaxGiven = 3
  MaxFaults = 2
  None = None
  Torn = Torn
SYMMETRY Symmetry
CHECK_DEADLOCK FALSE
SPECIFICATION Spec
INVARIANTS TypeOK NothingLost Traces Keeping Undisturbed
