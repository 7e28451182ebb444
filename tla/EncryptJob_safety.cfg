CONSTANTS
  Procs = {p1}
  Inodes = {i1, i2}
  Keys = {d1, d2, d3}
  Passwords = {w1, w2}
  Modes = {m1, m2}
  Compress = {FALSE, TRUE}
  NChunks = 2
  PlainCells = 2
  CompCells = 1
  MaxVersion = 2
  MaxFaults = 2
  FlushFails = TRUE
  None = None
  NoHdr = NoHdr
  NoPrs = NoPrs
  Free = Free
  Stale = Stale
  Zero = Zero
  Foot = Foot
SPECIFICATION Spec
INVARIANTS TypeOK FinalWhole NothingLost
PROPERTIES SourceOnlyTraded ImplementsExchange
VIEW View
