CONSTANTS
  Threads = {t1, t2, t3}
  Cap = 4
  NoThread = NoThread
SPECIFICATION FairSpec
INVARIANT PermitsConserved
PROPERTY CallReturns
