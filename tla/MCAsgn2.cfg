SPECIFICATION Spec
CONSTANTS
  cat = cat
  Procs <- MCProcs
  Modes = {"O_RDONLY"}
  Signals = TRUE
  IoctlArgs = {}
  MaxLeaked = 0
  BUF_SIZE = 4
  PAGE_SIZE = 4
  SIZE_RANGE = 32
  Bytes = {0, 90}
  ReadSizes = {4}
  AllocFails = TRUE
  Garbage = {255}
  CatReader = FALSE
  Overlap = {"tasklet", "reader"}
  NullSlots = {0, 3}
  MaxBytes = 5
  MaxPages = 2
INVARIANTS   UserBufferKept MarkAtHead HeadInFirstPage
PROPERTIES RingIsFifo
