SPECIFICATION FairSpec
CONSTANTS
  HDR = 2
  Size <- MCSize
  Cap = 3
  Requests = {"SSLT", "STAT"}
  MaxSessions = 2
  MaxRequests = 2
  MaxReports = 1
INVARIANTS TypeOK WholeUp WholeDown OneAnswer
PROPERTY Answered
CHECK_DEADLOCK FALSE
