SPECIFICATION RamSpec
CONSTANTS
  w = w
  r = r
  Procs <- MCProcs
  Writers <- MCWriters
  PAGE_SIZE = 2
  Bytes = {2}
  Data <- MCData
  ReadSizes = {3}
  Moves <- MCMoves
  Garbage = {0}
  IoctlArgs = {2}
  MaxPages = 2
INVARIANTS RamTypeOK  OpensCounted
  
