SPECIFICATION FairSpec
CONSTANTS
  p1 = p1
  p2 = p2
  p3 = p3
  Procs <- MCProcs
  Drivers = {"seek", "seek_open", "wait_event"}
  SIZE = 2
  Lengths = {1, 3}
  SeekRange = 3
  Bufs = {1, 2, 3}
  Signals = TRUE
CHECK_DEADLOCK FALSE
INVARIANTS DiskTypeOK MemorySafe NoLostData
PROPERTIES DataTaken
