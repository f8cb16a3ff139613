CONSTANTS
  Instances = {i1, i2}
  Sessions = {s1}
  Clocked = {s1}
  UpdateSteps <- MillisecondSteps
  MessageLimit = 1
  MaxMessageFetch = 3
  SessionWorkers = 1
  MaxMsgs = 2
  MaxUpdated = 3
  MaxFaults = 0
SPECIFICATION Spec
INVARIANT FirstExportsInOrder
INVARIANT CursorIsBoundary
INVARIANT SyncInv
INVARIANT SkipInv
