CONSTANTS
  Procs = {p1, p2, p3}
  Inodes = {i1, i2, i3, i4}
  NoInode = NoInode
  NoPid = NoPid
  MaxCrashes = 1
SPECIFICATION FairSpec
INVARIANTS TypeOK ExclusiveWhileAllLive NoOrphanLock
PROPERTY CallReturns
CHECK_DEADLOCK FALSE
