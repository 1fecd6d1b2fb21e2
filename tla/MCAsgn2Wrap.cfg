SPECIFICATION Spec
CONSTANTS
  cat = cat
  Procs <- MCProcs
  Modes = {"O_RDONLY"}
  Signals = FALSE
  IoctlArgs = {}
  MaxLeaked = 0
  BUF_SIZE = 4
  PAGE_SIZE = 8
  SIZE_RANGE = 32
  Bytes = {90, 165}
  ReadSizes = {16}
  AllocFails = FALSE
  Garbage = {255}
  CatReader = TRUE
  Overlap = {"burst"}
  NullSlots = {}
  MaxBytes = 5
  MaxPages = 2
CHECK_DEADLOCK FALSE
PROPERTY TaskletCopies
