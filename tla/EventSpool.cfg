SPECIFICATION FairSpec
CONSTANTS
  HookEvents = {h}
  EnqueuedEvents = {q}
  Agents = {a, b}
  MaxCrashes = 1
  MaxFaults = 1
  NoAgent = NoAgent
INVARIANTS TypeOK NoEventLost
PROPERTY EveryEventAccepted
