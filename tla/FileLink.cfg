SPECIFICATION FairSpec
CONSTANTS
  MaxSessions = 2
  MaxAsks = 2
  MaxReports = 1
  MaxRestarts = 1
INVARIANTS TypeOK RequestsOnce OwnAnswers
PROPERTIES ReadInOrder NotOverwritten RequestsHandled
