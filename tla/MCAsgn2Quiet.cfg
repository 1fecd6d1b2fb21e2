SPECIFICATION FairSpec
CONSTANTS
  cat = cat
  Procs <- MCProcs
  Modes = {"O_RDONLY"}
  Signals = FALSE
  IoctlArgs = {}
  MaxLeaked = 0
  BUF_SIZE = 4
  PAGE_SIZE = 4
  SIZE_RANGE = 32
  Bytes = {0, 90, 165}
  ReadSizes = {16}
  AllocFails = FALSE
  Garbage = {255}
  CatReader = TRUE
  Overlap = {}
  NullSlots = {1, 2}
  MaxBytes = 7
  MaxPages = 3
CHECK_DEADLOCK FALSE
INVARIANTS TailMatchesSize NoSleepOverData
PROPERTIES ReadsPipe EofAtTerminator AllHandedOver
