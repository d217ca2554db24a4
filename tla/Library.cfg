SPECIFICATION FairLibSpec
CONSTANTS
  Weathers = {"calm", "late", "rough"}
  MaxJobs = 1
  SearchLimit = 1
  MaxOlder = 1
  MaxDown = 2
  MaxContexts = 1
  Company = {"calm"}
INVARIANTS RowsAgree LibTypeOK TilesTold
PROPERTIES VerdictsStay LiveTilesSettle GhostsGo ContextsSettle
