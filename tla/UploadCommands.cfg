SPECIFICATION Spec
CONSTANTS
  Procs = {p1, p2, p3}
  Pids = {i1, i2, i3, i4}
  MaxCrashes = 3
  Inspectable = TRUE
INVARIANTS TypeOK ExclusiveUpload NothingLeft
PROPERTY NotAgain
