SPECIFICATION FairSpec
CONSTANTS
  MaxMsg = 2
  PageSize = 1
  MaxPages = 1
  AckedKept = 1
  MaxCrashes = 1
  HasHandler = TRUE
  HasWS = FALSE
  WriteFaults = FALSE
  ReadFaults = TRUE
PROPERTIES EveryMessageSettles ReceiptsSettle
