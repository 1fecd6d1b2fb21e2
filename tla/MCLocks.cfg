SPECIFICATION FairSpec
CONSTANTS
  mutex2 = mutex2
  mutex3 = mutex3
  mutex3b = mutex3b
  Users <- MCUsers
  Careless = {mutex2}
  Kinds = {"mutex", "semaphore"}
INVARIANTS LocksTypeOK OneAtATime
PROPERTIES FreeLockTaken
