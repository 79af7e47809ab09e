SPECIFICATION HistorySpec
CONSTANTS
  Kinds = {"user", "assistant"}
  MaxLines = 3
  MaxReports = 2
  MaxUploads = 2
  MaxJobs = 2
  StopPrompts = TRUE
  Repeated = {1, 2}
INVARIANTS HistoryTypeOK ReadUnderItsPrompt
PROPERTY CardOfItsPrompt
CHECK_DEADLOCK FALSE
