SPECIFICATION Spec
CONSTANTS
  MaxJobs = 1
  maxThreads = 1
  MaxRequests = 1
  Kinds <- MCAnimations
  Commands = {}
  Clients = {}
  MayCrash = FALSE
PROPERTY FailedFrameCancels
