SPECIFICATION Spec
CONSTANTS
  MaxMsg = 2
  PageSize = 2
  MaxPages = 1
  DirectLimit = 1
  SeenKept = 1
  MaxQueue = 2
  MaxCrashes = 1
  RenderFaults = FALSE
  SaveFaults = TRUE
INVARIANTS TypeOK AckOnlyRecorded NothingForgotten SkippedOnlyIfMissed
PROPERTY RenderedOnce
CHECK_DEADLOCK FALSE
