SPECIFICATION Spec
CONSTANTS
  MaxJobs = 1
  maxThreads = 2
  MaxRequests = 2
  Kinds <- MCAnimations
  Commands = {"ART_CANCEL"}
  Clients = {}
  MayCrash = FALSE
INVARIANTS AnimLockExclusion OneHome
PROPERTY MuxesQueuedFrames
