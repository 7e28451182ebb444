CONSTANTS
  Procs = {p1}
  Inodes = {i1, i2}
  Keys = {d1, d2, d3}
  Passwords = {w1}
  Modes = {m1, m2}
  Compress = {FALSE, TRUE}
  NChunks = 2
  PlainCells = 2
  CompCells = 1
  MaxVersion = 2
  MaxFaults = 2
  FlushFails = FALSE
  None = None
  NoHdr = NoHdr
  NoPrs = NoPrs
  Free = Free
  Stale = Stale
  Zero = Zero
  Foot = Foot
SPECIFICATION Spec
INVARIANTS TypeOK JobInv CheckpointBacked PlainResumeIsSeamless StrideInv
CHECK_DEADLOCK FALSE
