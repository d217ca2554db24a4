SPECIFICATION Spec
CONSTANTS
  MaxJobs = 2
  MAX_FILE_CACHE = 1
  Keys = {"TimedOut"}
  Threads = {"main", "render", "muxer"}
  MainThread = "main"
CHECK_DEADLOCK FALSE
PROPERTIES ForeignOnlyByRace LostOnlyByReload
