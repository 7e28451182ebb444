CONSTANTS
  Threads = {t1, t2, t3, t4}
  Cap = 2
  NoThread = NoThread
SPECIFICATION Spec
INVARIANTS TypeOK PermitsBounded
SYMMETRY Symmetry
