SPECIFICATION FairSpec
CONSTANTS
  Sessions = {s1, s2}
  Growing = {s1}
  Requests = {r1}
  Ask = Ask
  MaxVer = 2
  MaxAsks = 1
  MaxFaults = 1
INVARIANTS TypeOK DoneIsUploaded ErasedOnlyByOverlap
PROPERTY HeardIsSettled
CHECK_DEADLOCK FALSE
