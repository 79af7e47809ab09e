SPECIFICATION FairSpec
CONSTANTS
  MaxReports = 2
  MaxUploads = 1
  MaxConcurrency = 1
  MaxCrashes = 2
INVARIANTS TypeOK AnalysedOnItsOwn NotForgotten
PROPERTY ServesAgain
CHECK_DEADLOCK FALSE
