CONSTANTS
  Threads = {t1, t2}
  Cap = 2
  NoThread = NoThread
SPECIFICATION FairSpec
PROPERTY CallReturns
