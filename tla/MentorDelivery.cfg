SPECIFICATION Spec
CONSTANTS
  MaxMsg = 2
  PageSize = 1
  MaxPages = 1
  AckedKept = 1
  MaxCrashes = 1
  HasHandler = TRUE
  HasWS = TRUE
  WriteFaults = TRUE
  ReadFaults = FALSE
INVARIANTS TypeOK DeliveredWasShown ConfirmedByServer NeverShownAgain InflightExact AnnouncedOnce
PROPERTY ImplementsContract
