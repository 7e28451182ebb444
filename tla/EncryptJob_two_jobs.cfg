CONSTANTS
  Procs = {p1, p2}
  Inodes = {i1, i2, i3, i4}
  Keys = {d1, d2, d3, d4}
  Passwords = {w1}
  Modes = {m1}
  Compress = {FALSE}
  NChunks = 2
  PlainCells = 2
  CompCells = 1
  MaxVersion = 1
  MaxFaults = 0
  FlushFails = FALSE
  None = None
  NoHdr = NoHdr
  NoPrs = NoPrs
  Free = Free
  Stale = Stale
  Zero = Zero
  Foot = Foot
SPECIFICATION Spec
INVARIANT FinalWhole
