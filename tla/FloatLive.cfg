SPECIFICATION FairSpec
CONSTANTS
  MaxMsg = 1
  PageSize = 1
  MaxPages = 2
  DirectLimit = 1
  SeenKept = 2
  MaxQueue = 2
  MaxCrashes = 1
  RenderFaults = TRUE
  SaveFaults = TRUE
PROPERTY ReceiptsSettle
CHECK_DEADLOCK FALSE
