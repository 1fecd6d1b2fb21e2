SPECIFICATION FairSpec
CONSTANTS
  cat = cat
  Procs <- MCProcs
  Modes = {"O_RDONLY"}
  Signals = FALSE
  IoctlArgs = {}
  MaxLeaked = 0
  BUF_SIZE = 4
  PAGE_SIZE = 4
  SIZE_RANGE = 32
  Bytes = {90}
  ReadSizes = {16}
  AllocFails = FALSE
  Garbage = {255}
  CatReader = TRUE
  Overlap = {"reader"}
  NullSlots = {}
  MaxBytes = 3
  MaxPages = 2
CHECK_DEADLOCK FALSE
PROPERTY SleeperGetsData
