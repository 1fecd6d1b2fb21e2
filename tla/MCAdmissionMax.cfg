SPECIFICATION AdmSpec
CONSTANTS
  p1 = p1
  p2 = p2
  p3 = p3
  Procs <- MCProcs
  Modes = {"O_RDONLY"}
  Signals = FALSE
  IoctlArgs = {1}
  MaxLeaked = 0
INVARIANT NprocsWithinMax
