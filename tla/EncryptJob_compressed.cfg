CONSTANTS
  Procs = {p1}
  Inodes = {i1, i2}
  Keys = {d1, d2, d3}
  Passwords = {w1}
  Modes = {m1}
  Compress = {TRUE}
  NChunks = 2
  PlainCells = 2
  CompCells = 1
  MaxVersion = 1
  MaxFaults = 1
  FlushFails = FALSE
  None = None
  NoHdr = NoHdr
  NoPrs = NoPrs
  Free = Free
  Stale = Stale
  Zero = Zero
  Foot = Foot
SPECIFICATION Spec
INVARIANT ResumeIsSeamless
