SPECIFICATION Spec
CONSTANTS
  MaxJobs = 2
  maxThreads = 1
  MaxRequests = 1
  Kinds <- MCManual
  Commands = {"ART_CANCEL", "ART_DELETE"}
  Clients = {}
  MayCrash = TRUE
INVARIANTS RenderingHasThread VerdictClosesJob BoardShowsRunning
PROPERTIES VerdictsAreFinal StrandedOnlyByLateInsert ImplementsLedger StartsInOrder
