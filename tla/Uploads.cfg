SPECIFICATION FairSpec
CONSTANTS
  Sessions = {s1, s2}
  MaxVer = 2
  Tasks = {t1, t2}
  MaxRequests = 4
  MaxRestarts = 1
  LlmEnabled = TRUE
INVARIANTS TypeOK StatusIsTrue
PROPERTIES DoneMeansAllDone AnalysisSettles
CHECK_DEADLOCK FALSE
