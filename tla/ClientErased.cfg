SPECIFICATION Spec
CONSTANTS
  Sessions = {s1}
  Growing = {s1}
  Requests = {r1, r2}
  Ask = Ask
  MaxVer = 2
  MaxAsks = 1
  MaxFaults = 0
CHECK_DEADLOCK FALSE
INVARIANT ContentKept
