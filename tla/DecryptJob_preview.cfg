CONSTANTS
  Procs = {p1}
  Passwords = {w1, w2}
  Right = w1
  Formats = {"v2", "v3", "v6"}
  NChunks = 2
  MaxVersion = 2
  MaxFaults = 0
  FlushFails = FALSE
  Previews = TRUE
  Forces = {FALSE}
  None = None
  Free = Free
  Stale = Stale
  Zero = Zero
SPECIFICATION Spec
PROPERTY PreviewKeepsContainer
