SPECIFICATION Spec
CONSTANTS
  Drivers = {"asgn1", "asgn2"}
  BufSlots = 2
  MaxPages = 2
CHECK_DEADLOCK FALSE
INVARIANTS LifeTypeOK 
PROPERTIES UnloadReleases FailedLoadLeaves
