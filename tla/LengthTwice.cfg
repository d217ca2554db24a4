SPECIFICATION Spec
CONSTANTS
  HDR = 2
  Size <- MCSize
  Cap = 3
  Requests = {"SSLT"}
  MaxSessions = 1
  MaxRequests = 2
  MaxReports = 1
INVARIANT LengthInHostOrder
CHECK_DEADLOCK FALSE
