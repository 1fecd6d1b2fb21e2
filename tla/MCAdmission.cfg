SPECIFICATION AdmFairSpec
CONSTANTS
  p1 = p1
  p2 = p2
  p3 = p3
  Procs <- MCProcs
  Modes = {"O_RDONLY", "O_RDWR"}
  Signals = TRUE
  IoctlArgs <- MCIoctlArgs
  MaxLeaked = 2
INVARIANTS AdmTypeOK Accounting SleeperHasWaker FreshSession
PROPERTIES SleeperWoken FreeDeviceTaken
