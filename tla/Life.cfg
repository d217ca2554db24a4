SPECIFICATION FairSpec
CONSTANTS
  MaxJobs = 1
  maxThreads = 1
  MaxRequests = 1
  Kinds <- MCMixed
  Commands = {"ART_CANCEL", "ART_DELETE", "ART_CHANGE_NAME"}
  Clients = {c1}
  MayCrash = FALSE
INVARIANTS TypeOK ClientsCatchUp
PROPERTY JobsEnd
